---- MODULE Spec2Model ----
(***************************************************************************)
(* Device Trust Shim: the SHA-256 digest engine and the AuditChain hash    *)
(* chain of include/dts/audit_chain.hpp, with a caller that exports the    *)
(* entries returned by log() and presents them, untouched or tampered      *)
(* with, to AuditChain::verify_chain.                                      *)
(*                                                                         *)
(* Strings are TLA+ strings; positions are 0-based as in std::string.      *)
(* A uint32_t is a pair <<high 16 bits, low 16 bits>>: TLC integers are    *)
(* 32-bit signed, so a 32-bit unsigned word does not fit in one.           *)
(***************************************************************************)
EXTENDS Integers, Sequences, FiniteSets, TLC

VARIABLES
    device_id_,         \* AuditChain::device_id_
    previous_hash_,     \* AuditChain::previous_hash_ (32 bytes)
    sequence_number_,   \* AuditChain::sequence_number_
    entries,            \* the caller's export: what log() returned, in call order
    presented,          \* the argument of the caller's last verify_chain call
    tamper,             \* what the caller did to the export before presenting it
    result,             \* what that verify_chain call did: "true", "false", "throw"
    queried,            \* the caller's last query of the chain and what it returned
    twin,               \* a second AuditChain constructed with the same device_id
    threads,            \* threads inside log(): where each is and its local variables
    lock,               \* the caller's mutex around log(): its holder, "free" or "absent"
    sha,                \* a SHA256 object fed in chunks, and the bytes it is fed
    adapter             \* the adapter that owns the instance as its chain_, if one does

\* The variables of the scenarios that a step of another scenario leaves alone.
aside == <<twin, threads, lock, sha, adapter>>

vars == <<device_id_, previous_hash_, sequence_number_, entries, presented, tamper, result,
          queried, aside>>

---------------------------------------------------------------------------
(* Bounds of the model.                                                    *)

\* log() calls per behaviour.
MaxEntries == 3

\* The leading characters of a digest text that the model alters.
MaxAlterPos == 2
\* log() calls made by the threads of the single-writer scenario.
MaxRaceCalls == 2
\* update() calls on one SHA256 object that are told apart.
MaxChunks == 3
\* finalize() calls on one SHA256 object.
MaxFinalize == 2
\* Length of the messages spelled out of the characters that need escaping.
MaxMessageLen == 2

---------------------------------------------------------------------------
(* Characters and bytes.                                                   *)

Min(a, b) == IF a < b THEN a ELSE b

\* The element of a singleton set. {e(x) : x \in {d}} binds x to the value of d,
\* so that TLC computes d once, however often e uses it.
The(S) == CHOOSE x \in S : TRUE

CharAt(str, pos) == SubSeq(str, pos + 1, pos + 1)

\* The printable ASCII characters in code order: 0x20 to 0x5f and 0x61 to 0x7e
\* (a TLA+ string cannot hold 0x60).
AsciiLow == " !\"#$%&'()*+,-./0123456789:;<=>?@ABCDEFGHIJKLMNOPQRSTUVWXYZ[\\]^_"
AsciiHigh == "abcdefghijklmnopqrstuvwxyz{|}~"

\* The control characters 0x01, 0x08 ('\b' of C++) and 0x1f, written as the
\* bytes themselves between the quotes.
Soh == ""
Backspace == ""
Us == ""

Control == [c \in {Soh, Backspace, "\t", "\n", "\f", "\r", Us} |->
              IF c = Soh THEN 1 ELSE IF c = Backspace THEN 8
              ELSE IF c = "\t" THEN 9 ELSE IF c = "\n" THEN 10
              ELSE IF c = "\f" THEN 12 ELSE IF c = "\r" THEN 13 ELSE 31]

\* The byte value of each character (reinterpret_cast<const uint8_t*>(str.data())).
CharCode ==
    [c \in {CharAt(AsciiLow, i) : i \in 0..(Len(AsciiLow) - 1)}
           \cup {CharAt(AsciiHigh, i) : i \in 0..(Len(AsciiHigh) - 1)}
           \cup DOMAIN Control |->
        IF c \in DOMAIN Control THEN Control[c]
        ELSE IF \E i \in 0..(Len(AsciiLow) - 1) : CharAt(AsciiLow, i) = c
        THEN 32 + CHOOSE i \in 0..(Len(AsciiLow) - 1) : CharAt(AsciiLow, i) = c
        ELSE 97 + CHOOSE i \in 0..(Len(AsciiHigh) - 1) : CharAt(AsciiHigh, i) = c]

StrBytes(str) == [i \in 1..Len(str) |-> CharCode[CharAt(str, i - 1)]]

\* The concatenation part[lo] \o ... \o part[hi], as an ostringstream builds it.
RECURSIVE Concat(_, _, _)
Concat(part, lo, hi) ==
    IF lo > hi THEN ""
    ELSE IF lo = hi THEN part[lo]
    ELSE LET mid == (lo + hi) \div 2
         IN Concat(part, lo, mid) \o Concat(part, mid + 1, hi)

---------------------------------------------------------------------------
(* class SHA256                                                            *)

RECURSIVE BitOp(_, _, _, _)
BitOp(f, a, b, n) ==
    IF n = 0 THEN 0
    ELSE f[a % 2][b % 2] + 2 * BitOp(f, a \div 2, b \div 2, n - 1)

XorBit == [p \in 0..1 |-> [q \in 0..1 |-> (p + q) % 2]]
AndBit == [p \in 0..1 |-> [q \in 0..1 |-> p * q]]
OrBit == [p \in 0..1 |-> [q \in 0..1 |-> IF p + q > 0 THEN 1 ELSE 0]]

\* The bitwise operators on 4-bit values, tabulated.
Xor4 == [a \in 0..15 |-> [b \in 0..15 |-> BitOp(XorBit, a, b, 4)]]
And4 == [a \in 0..15 |-> [b \in 0..15 |-> BitOp(AndBit, a, b, 4)]]
Or4 == [a \in 0..15 |-> [b \in 0..15 |-> BitOp(OrBit, a, b, 4)]]

Op16(t, a, b) ==
    t[a \div 4096][b \div 4096] * 4096
    + t[(a \div 256) % 16][(b \div 256) % 16] * 256
    + t[(a \div 16) % 16][(b \div 16) % 16] * 16
    + t[a % 16][b % 16]

\* uint32_t operators: ^ & | ~ + >> <<
Xor(a, b) == The({<<Op16(Xor4, x[1], y[1]), Op16(Xor4, x[2], y[2])>> : x \in {a}, y \in {b}})
And(a, b) == The({<<Op16(And4, x[1], y[1]), Op16(And4, x[2], y[2])>> : x \in {a}, y \in {b}})
Or(a, b) == The({<<Op16(Or4, x[1], y[1]), Op16(Or4, x[2], y[2])>> : x \in {a}, y \in {b}})
Not(a) == The({<<65535 - x[1], 65535 - x[2]>> : x \in {a}})
Add(a, b) ==
    The({<<(x[1] + y[1] + (x[2] + y[2]) \div 65536) % 65536, (x[2] + y[2]) % 65536>> :
            x \in {a}, y \in {b}})
Shr(w, n) ==
    IF n >= 16 THEN <<0, w[1] \div (2 ^ (n - 16))>>
    ELSE <<w[1] \div (2 ^ n), (w[2] \div (2 ^ n)) + (w[1] % (2 ^ n)) * (2 ^ (16 - n))>>
Shl(w, n) ==
    IF n >= 16 THEN <<(w[2] * (2 ^ (n - 16))) % 65536, 0>>
    ELSE <<((w[1] * (2 ^ n)) % 65536) + (w[2] \div (2 ^ (16 - n))), (w[2] * (2 ^ n)) % 65536>>

\* uint32_t h[8]
h_init ==
    << <<27145, 58983>>, <<47975, 44677>>, <<15470, 62322>>, <<42319, 62778>>,
       <<20750, 21119>>, <<39685, 26764>>, <<8067, 55723>>, <<23520, 52505>> >>

\* static constexpr uint32_t k[64]
k ==
    << <<17034, 12184>>, <<28983, 17553>>, <<46528, 64463>>, <<59829, 56229>>,
       <<14678, 49756>>, <<23025, 4593>>, <<37439, 33508>>, <<43804, 24277>>,
       <<55303, 43672>>, <<4739, 23297>>, <<9265, 34238>>, <<21772, 32195>>,
       <<29374, 23949>>, <<32990, 45566>>, <<39900, 1703>>, <<49563, 61812>>,
       <<58523, 27073>>, <<61374, 18310>>, <<4033, 40390>>, <<9228, 41420>>,
       <<11753, 11375>>, <<19060, 33962>>, <<23728, 43484>>, <<30457, 35034>>,
       <<38974, 20818>>, <<43057, 50795>>, <<45059, 10184>>, <<48985, 32711>>,
       <<50912, 3059>>, <<54695, 37191>>, <<1738, 25425>>, <<5161, 10599>>,
       <<10167, 2693>>, <<11803, 8504>>, <<19756, 28156>>, <<21304, 3347>>,
       <<25866, 29524>>, <<30314, 2747>>, <<33218, 51502>>, <<37490, 11397>>,
       <<41663, 59553>>, <<43034, 26187>>, <<49739, 35696>>, <<51052, 20899>>,
       <<53650, 59417>>, <<54937, 1572>>, <<62478, 13701>>, <<4202, 41072>>,
       <<6564, 49430>>, <<7735, 27656>>, <<10056, 30540>>, <<13488, 48309>>,
       <<14620, 3251>>, <<20184, 43594>>, <<23452, 51791>>, <<26670, 28659>>,
       <<29839, 33518>>, <<30885, 25455>>, <<33992, 30740>>, <<36039, 520>>,
       <<37054, 65530>>, <<42064, 27883>>, <<48889, 41975>>, <<50801, 30962>> >>

\* static constexpr uint8_t padding[64] = {0x80}
padding == [i \in 1..64 |-> IF i = 1 THEN 128 ELSE 0]

right_rotate(value, amount) == Or(Shr(value, amount), Shl(value, 32 - amount))

\* The word w[i] of the message schedule, from the words before it (w is
\* indexed from 1 here, so w[i] of the source is the element i + 1).
ScheduleWord(w) ==
    LET i == Len(w) + 1
        s0 == Xor(Xor(right_rotate(w[i-15], 7), right_rotate(w[i-15], 18)),
                  Shr(w[i-15], 3))
        s1 == Xor(Xor(right_rotate(w[i-2], 17), right_rotate(w[i-2], 19)),
                  Shr(w[i-2], 10))
    IN Add(Add(Add(w[i-16], s0), w[i-7]), s1)

\* The schedule w extended by the count words that follow it.
RECURSIVE Extend(_, _)
Extend(w, count) ==
    IF count = 1 THEN The({Append(v, ScheduleWord(v)) : v \in {w}})
    ELSE The({Extend(half, count - count \div 2) : half \in {Extend(w, count \div 2)}})

\* The message schedule w[16..63] of transform().
Schedule(w) == Extend(w, 64 - Len(w))

\* One pass of the compression loop of transform() on <<a, b, c, d, e, f, g, h_val>>.
Round(v, wi, ki) ==
    LET a == v[1] b == v[2] c == v[3] d == v[4]
        e == v[5] f == v[6] g == v[7] h_val == v[8]
        S1 == Xor(Xor(right_rotate(e, 6), right_rotate(e, 11)), right_rotate(e, 25))
        ch == Xor(And(e, f), And(Not(e), g))
        S0 == Xor(Xor(right_rotate(a, 2), right_rotate(a, 13)), right_rotate(a, 22))
        maj == Xor(Xor(And(a, b), And(a, c)), And(b, c))
    IN The({<<Add(temp1, temp2), a, b, c, Add(d, temp1), e, f, g>> :
               temp1 \in {Add(Add(Add(Add(h_val, S1), ch), ki), wi)},
               temp2 \in {Add(S0, maj)}})

\* The compression loop, passes lo..hi, from working variables v.
RECURSIVE Rounds(_, _, _, _)
Rounds(v, w, lo, hi) ==
    IF lo = hi THEN The({Round(from, w[at], k[at]) : from \in {v}, at \in {lo}})
    ELSE The({The({Rounds(mid, w, half + 1, hi) : mid \in {Rounds(v, w, lo, half)}}) :
                 half \in {(lo + hi) \div 2}})

\* transform(): the chaining value after the 64-byte block in buffer.
transform(h, buffer) ==
    LET w16 == [i \in 1..16 |-> <<buffer[4*i-3] * 256 + buffer[4*i-2],
                                  buffer[4*i-1] * 256 + buffer[4*i]>>]
    IN The({[i \in 1..8 |-> Add(h[i], v[i])] : v \in {Rounds(h, w, 1, 64) : w \in {Schedule(w16)}}})

\* The chaining value after every full 64-byte block of data.
RECURSIVE Blocks(_, _)
Blocks(h, data) ==
    IF Len(data) < 64 THEN h
    ELSE The({Blocks(nh, SubSeq(data, 65, Len(data))) :
                 nh \in {transform(h, SubSeq(data, 1, 64))}})

\* A fresh SHA256 object. buffer holds the buffer_len bytes buffered so far.
SHA256 == [h |-> h_init, buffer |-> <<>>, bit_len |-> 0]

\* update() that sets bit_len to the length of this call's data.
update_restarts_bit_len(ctx, data) ==
    The({[h |-> Blocks(ctx.h, all),
          buffer |-> SubSeq(all, 64 * (Len(all) \div 64) + 1, Len(all)),
          bit_len |-> Len(data) * 8] : all \in {ctx.buffer \o data}})

\* update(): each byte is appended to the buffer and a buffer of 64 bytes is
\* transformed and emptied; that is, the buffered bytes followed by data are
\* consumed in blocks of 64 and the rest stays buffered.
update(ctx, data) ==
    The({[h |-> Blocks(ctx.h, all),
          buffer |-> SubSeq(all, 64 * (Len(all) \div 64) + 1, Len(all)),
          bit_len |-> ctx.bit_len + Len(data) * 8] : all \in {ctx.buffer \o data}})

\* The 8 bytes of a uint64_t in memory (little-endian host).
Uint64Bytes(value) ==
    [i \in 1..8 |-> IF i > 4 THEN 0 ELSE (value \div (256 ^ (i - 1))) % 256]

\* swap_endian() on the memory image of the value.
swap_endian(bytes) == [i \in 1..8 |-> bytes[9 - i]]

\* The bytes of h[0..7], most significant byte first (the loop of finalize()).
ResultBytes(h) ==
    [i \in 1..32 |->
        LET word == h[(i - 1) \div 4 + 1]
            byte == (i - 1) % 4
        IN IF byte = 0 THEN word[1] \div 256
           ELSE IF byte = 1 THEN word[1] % 256
           ELSE IF byte = 2 THEN word[2] \div 256
           ELSE word[2] % 256]

\* finalize() that pads to the end of the block.
PadLen_to_block(buffer_len) == 64 - buffer_len

\* pad_len of finalize(): the padding leaves 8 bytes of the block free.
PadLen(buffer_len) == IF buffer_len < 56 THEN 56 - buffer_len ELSE 120 - buffer_len

\* The SHA256 object after the two update() calls of finalize().
Finalized(ctx) ==
    LET bit_len_be == swap_endian(Uint64Bytes(ctx.bit_len))
        pad_len == PadLen(Len(ctx.buffer))
    IN The({update(padded, bit_len_be) :
               padded \in {update(ctx, SubSeq(padding, 1, pad_len))}})

finalize(ctx) == The({ResultBytes(done.h) : done \in {Finalized(ctx)}})

\* SHA256::hash(const uint8_t*, size_t)
hash_bytes(data) == The({finalize(ctx) : ctx \in {update(SHA256, data)}})

\* SHA256::hash(const std::string&)
hash(str) == The({finalize(ctx) : ctx \in {update(SHA256, bytes) : bytes \in {StrBytes(str)}}})

---------------------------------------------------------------------------
(* std::string and std::stoi as the chain uses them.                       *)

npos == -1

\* std::string::find(pattern, from): the first position >= from where pattern
\* occurs, or npos.
find(str, pattern, from) ==
    LET hits == {p \in from..(Len(str) - Len(pattern)) :
                    SubSeq(str, p + 1, p + Len(pattern)) = pattern}
    IN IF hits = {} THEN npos ELSE CHOOSE p \in hits : \A q \in hits : p <= q

\* std::string::substr(pos, count), for pos <= size (beyond it, it throws
\* std::out_of_range).
substr(str, pos, count) == SubSeq(str, pos + 1, Min(pos + count, Len(str)))

HexDigits == "0123456789abcdef"
UpperHexDigits == "0123456789ABCDEF"

IsHexDigit(c) ==
    \E i \in 0..15 : c = CharAt(HexDigits, i) \/ c = CharAt(UpperHexDigits, i)

HexValue(c) ==
    CHOOSE i \in 0..15 : c = CharAt(HexDigits, i) \/ c = CharAt(UpperHexDigits, i)

IsSpace(c) == c \in {" ", "\t", "\n", "\f", "\r"}

\* std::stoi(str, nullptr, 16) on a string of at most 2 characters: white space
\* is skipped, a sign is read, then the longest run of hexadecimal digits (of
\* "0x" the "0" alone); with no digit it throws std::invalid_argument.
stoi_digits(str) ==
    LET c0 == CharAt(str, 0)
        c1 == CharAt(str, 1)
    IN IF Len(str) = 0 THEN ""
       ELSE IF IsSpace(c0) \/ c0 \in {"+", "-"}
       THEN (IF Len(str) = 2 /\ IsHexDigit(c1) THEN c1 ELSE "")
       ELSE IF ~IsHexDigit(c0) THEN ""
       ELSE IF Len(str) = 2 /\ IsHexDigit(c1) THEN str
       ELSE c0

stoi_throws(str) == stoi_digits(str) = ""

stoi(str) ==
    LET digits == stoi_digits(str)
        value == IF Len(digits) = 2
                 THEN 16 * HexValue(CharAt(digits, 0)) + HexValue(CharAt(digits, 1))
                 ELSE HexValue(digits)
    IN IF CharAt(str, 0) = "-" THEN 0 - value ELSE value

---------------------------------------------------------------------------
(* class AuditChain                                                        *)

\* enum class UserID : uint8_t
System == 0
Admin == 1
Operator == 2
Service == 3
Unauthorized == 255
UserID == {System, Admin, Operator, Service, Unauthorized}

\* enum class Severity : uint8_t
Debug == 0
Info == 1
Warning == 2
Error == 3
Critical == 4
Severity == {Debug, Info, Warning, Error, Critical}

\* operator<< of an int: its decimal digits.
RECURSIVE Decimal(_)
Decimal(n) ==
    IF n < 10 THEN CharAt(HexDigits, n)
    ELSE Decimal(n \div 10) \o CharAt(HexDigits, n % 10)

\* std::hex << std::setfill('0') << std::setw(2) << static_cast<int>(byte)
\* A byte written without std::setw(2): no leading zero.
HexByte_without_setw(byte) ==
    IF byte < 16 THEN CharAt(HexDigits, byte)
    ELSE CharAt(HexDigits, byte \div 16) \o CharAt(HexDigits, byte % 16)

HexByte(byte) == CharAt(HexDigits, byte \div 16) \o CharAt(HexDigits, byte % 16)

hash_to_hex(digest) == Concat([i \in 1..32 |-> HexByte(digest[i])], 1, 32)

\* hex_to_hash() throws when substr() is asked for a position beyond the end
\* (std::out_of_range) or stoi() finds no digit (std::invalid_argument).
hex_to_hash_throws(hex) ==
    \E i \in 0..31 : 2 * i > Len(hex) \/ stoi_throws(substr(hex, 2 * i, 2))

hex_to_hash(hex) == [i \in 1..32 |-> stoi(substr(hex, 2 * (i - 1), 2)) % 256]

extract_hex(json, start_pos) ==
    LET end_pos == find(json, "\"", start_pos)
    IN IF end_pos = npos THEN "" ELSE substr(json, start_pos, end_pos - start_pos)

\* escape_json() without the case of the backslash.
EscapeChar_keeps_backslash(c) ==
    IF c = "\"" THEN "\\\""
    ELSE IF c = Backspace THEN "\\b"
    ELSE IF c = "\f" THEN "\\f"
    ELSE IF c = "\n" THEN "\\n"
    ELSE IF c = "\r" THEN "\\r"
    ELSE IF c = "\t" THEN "\\t"
    ELSE IF CharCode[c] < 32 THEN "\\u00" \o HexByte(CharCode[c])
    ELSE c

EscapeChar(c) ==
    IF c = "\"" THEN "\\\""
    ELSE IF c = "\\" THEN "\\\\"
    ELSE IF c = Backspace THEN "\\b"
    ELSE IF c = "\f" THEN "\\f"
    ELSE IF c = "\n" THEN "\\n"
    ELSE IF c = "\r" THEN "\\r"
    ELSE IF c = "\t" THEN "\\t"
    ELSE IF CharCode[c] < 32 THEN "\\u00" \o HexByte(CharCode[c])
    ELSE c

escape_json(str) == Concat([i \in 1..Len(str) |-> EscapeChar(CharAt(str, i - 1))], 1, Len(str))

\* SHA256::hash("DTS_INIT"): the digest the constructor and verify_chain start from.
DTS_INIT == hash("DTS_INIT")

\* A payload built from the message as it is written into the entry.
Payload_of_escaped_message(device_id, timestamp, user_id, severity, message, previous_hash) ==
    device_id \o "|" \o timestamp \o "|" \o Decimal(user_id) \o "|"
    \o Decimal(severity) \o "|" \o escape_json(message) \o "|" \o hash_to_hex(previous_hash)

\* The payload log() hashes.
Payload(device_id, timestamp, user_id, severity, message, previous_hash) ==
    device_id \o "|" \o timestamp \o "|" \o Decimal(user_id) \o "|"
    \o Decimal(severity) \o "|" \o message \o "|" \o hash_to_hex(previous_hash)

\* The JSON text log() assembles, given the two digests in hexadecimal.
Serialize(device_id, timestamp, user_id, severity, message, previous_hex, chain_hex) ==
    "{"
    \o "\"device_id\":\"" \o device_id \o "\","
    \o "\"timestamp\":\"" \o timestamp \o "\","
    \o "\"user_id\":" \o Decimal(user_id) \o ","
    \o "\"severity\":" \o Decimal(severity) \o ","
    \o "\"message\":\"" \o escape_json(message) \o "\","
    \o "\"previous_hash\":\"" \o previous_hex \o "\","
    \o "\"chain_hash\":\"" \o chain_hex \o "\""
    \o "}"

\* The JSON log entry log() returns.
LogEntry(device_id, timestamp, user_id, severity, message, previous_hash, current_hash) ==
    Serialize(device_id, timestamp, user_id, severity, message,
              hash_to_hex(previous_hash), hash_to_hex(current_hash))

\* Where log() puts the two digests: the entry ends with
\* "previous_hash":"<64 characters>","chain_hash":"<64 characters>"}
PreviousHashStart(entry) == Len(entry) - 146
ChainHashStart(entry) == Len(entry) - 66
PreviousHashField(entry) == substr(entry, PreviousHashStart(entry), 64)
ChainHashField(entry) == substr(entry, ChainHashStart(entry), 64)

\* get_chain_hash() that returns the digest the chain started from.
get_chain_hash_of_genesis == hash_to_hex(DTS_INIT)

get_chain_hash == hash_to_hex(previous_hash_)

get_sequence_number == sequence_number_

\* One pass of the loop that does not carry the chain_hash forward.
VerifyEntry_keeps_expected(entry, expected_prev) ==
    LET prev_hash_pos == find(entry, "\"previous_hash\":\"", 0)
        chain_hash_pos == find(entry, "\"chain_hash\":\"", 0)
        prev_hash_hex == extract_hex(entry, prev_hash_pos + 17)
        chain_hash_hex == extract_hex(entry, chain_hash_pos + 14)
    IN IF prev_hash_pos = npos \/ chain_hash_pos = npos
       THEN [outcome |-> "false", expected_prev |-> expected_prev]
       ELSE IF prev_hash_hex # hash_to_hex(expected_prev)
       THEN [outcome |-> "false", expected_prev |-> expected_prev]
       ELSE IF hex_to_hash_throws(chain_hash_hex)
       THEN [outcome |-> "throw", expected_prev |-> expected_prev]
       ELSE [outcome |-> "next", expected_prev |-> expected_prev]

\* What one pass of the loop of verify_chain does with an entry: it returns
\* false, hex_to_hash throws, or it goes on with a new value of expected_prev.
VerifyEntry(entry, expected_prev) ==
    LET prev_hash_pos == find(entry, "\"previous_hash\":\"", 0)
        chain_hash_pos == find(entry, "\"chain_hash\":\"", 0)
        prev_hash_hex == extract_hex(entry, prev_hash_pos + 17)
        chain_hash_hex == extract_hex(entry, chain_hash_pos + 14)
    IN IF prev_hash_pos = npos \/ chain_hash_pos = npos
       THEN [outcome |-> "false", expected_prev |-> expected_prev]
       ELSE IF prev_hash_hex # hash_to_hex(expected_prev)
       THEN [outcome |-> "false", expected_prev |-> expected_prev]
       ELSE IF hex_to_hash_throws(chain_hash_hex)
       THEN [outcome |-> "throw", expected_prev |-> expected_prev]
       ELSE [outcome |-> "next", expected_prev |-> hex_to_hash(chain_hash_hex)]

\* The loop of verify_chain from entry i on.
RECURSIVE VerifyFrom(_, _, _)
VerifyFrom(list, i, expected_prev) ==
    IF i > Len(list) THEN "true"
    ELSE LET pass == VerifyEntry(list[i], expected_prev)
         IN IF pass.outcome = "next" THEN VerifyFrom(list, i + 1, pass.expected_prev)
            ELSE pass.outcome

\* verify_chain that knows how many entries the instance has logged.
verify_chain_counts(list) ==
    IF list = <<>> THEN "true"
    ELSE IF Len(list) # sequence_number_ THEN "false"
    ELSE VerifyFrom(list, 1, DTS_INIT)

\* AuditChain::verify_chain: "true", "false", or "throw" for an exception.
verify_chain(list) == IF list = <<>> THEN "true" ELSE VerifyFrom(list, 1, DTS_INIT)

---------------------------------------------------------------------------
(* The inputs of the model.                                                *)

\* Device identities given to the constructor: a serial number, one holding the
\* text of a field marker, and one holding a whole pair of digest fields.
PlainId == "DEV-1"
MarkerId == "D\"previous_hash\":\"1"
FieldsId ==
    "D\",\"previous_hash\":\"" \o hash_to_hex(DTS_INIT)
    \o "\",\"chain_hash\":\"" \o hash_to_hex(DTS_INIT)
DeviceIds == {PlainId, MarkerId, FieldsId}

\* The log() calls of the model: <<message, user_id, severity, timestamp>>, the
\* timestamp being what log() formats from the system clock
\* (%Y-%m-%dT%H:%M:%S, '.', three digits of milliseconds, 'Z').
Calls ==
    { <<"boot", System, Info, "2025-01-01T00:00:00.000Z">>,
      <<"door \"A\" open", Unauthorized, Critical, "2025-01-01T00:00:00.001Z">> }

---------------------------------------------------------------------------
(* The state machine.                                                      *)

NoTamper == [kind |-> "none", at |-> 0, field |-> "none"]

\* No query made yet.
NoQuery == [op |-> "none", chain_hash |-> "", sequence_number |-> 0]

\* AuditChain::AuditChain(device_id) for the second instance.
NewTwin == [previous_hash_ |-> DTS_INIT, sequence_number_ |-> 0, entries |-> <<>>]

\* The threads of the caller, none of them inside log().
Threads == {"T1", "T2"}
Outside == [pc |-> "outside", call |-> <<>>, current_hash |-> <<>>, log_entry |-> "",
            sequence_number |-> 0]
NoThreads == [t \in Threads |-> Outside]

\* A fresh SHA256 object and nothing to feed it.
NoSha == [ctx |-> SHA256, data |-> <<>>, fed |-> 0, chunks |-> 0, finalized |-> 0, digest |-> <<>>]

\* The instance belongs to its caller, not to an adapter.
NoAdapter == [class |-> "none", device_type_ |-> "", ae_title_ |-> "", protocol_id_ |-> "",
              asset_tag_ |-> "", line_id_ |-> "", building_id_ |-> "", zone_id_ |-> ""]

\* AuditChain::AuditChain(device_id), and a caller that holds no entry yet.
InitChain ==
    /\ device_id_ \in DeviceIds
    /\ previous_hash_ = DTS_INIT
    /\ sequence_number_ = 0
    /\ entries = <<>>
    /\ presented = <<>>
    /\ tamper = NoTamper
    /\ result = "none"
    /\ queried = NoQuery

\* One instance, one thread, and a caller that exports and verifies.
Init ==
    /\ InitChain
    /\ twin = NewTwin
    /\ threads = NoThreads
    /\ lock = "absent"
    /\ sha = NoSha
    /\ adapter = NoAdapter

\* log() that forgets to carry the new digest forward.
log_keeps_previous_hash(message, user_id, severity, timestamp) ==
    LET payload == Payload(device_id_, timestamp, user_id, severity, message, previous_hash_)
    IN /\ tamper.kind \in {"none", "untouched"}
       /\ Len(entries) < MaxEntries
       /\ \E current_hash \in {hash(payload)} :
            entries' = Append(entries,
                              LogEntry(device_id_, timestamp, user_id, severity, message,
                                       previous_hash_, current_hash))
       /\ sequence_number_' = sequence_number_ + 1
       /\ UNCHANGED <<device_id_, previous_hash_, presented, tamper, result, queried, aside>>

\* log() that forgets to count the entry.
log_skips_count(message, user_id, severity, timestamp) ==
    LET payload == Payload(device_id_, timestamp, user_id, severity, message, previous_hash_)
    IN /\ tamper.kind \in {"none", "untouched"}
       /\ Len(entries) < MaxEntries
       /\ \E current_hash \in {hash(payload)} :
            /\ entries' = Append(entries,
                                 LogEntry(device_id_, timestamp, user_id, severity, message,
                                          previous_hash_, current_hash))
            /\ previous_hash_' = current_hash
       /\ UNCHANGED <<device_id_, sequence_number_, presented, tamper, result, queried, aside>>

\* log() that mixes a value of its own choosing into the payload.
log_salted(message, user_id, severity, timestamp) ==
    \E salt \in {"", "0"} :
      LET payload == Payload(device_id_, timestamp, user_id, severity, message, previous_hash_) \o salt
      IN /\ tamper.kind \in {"none", "untouched"}
         /\ Len(entries) < MaxEntries
         /\ \E current_hash \in {hash(payload)} :
              /\ entries' = Append(entries,
                                   LogEntry(device_id_, timestamp, user_id, severity, message,
                                            previous_hash_, current_hash))
              /\ previous_hash_' = current_hash
         /\ sequence_number_' = sequence_number_ + 1
         /\ UNCHANGED <<device_id_, presented, tamper, result, queried, aside>>

\* log() that gives up on a message with a control character.
log_rejects_control_characters(message, user_id, severity, timestamp) ==
    LET payload == Payload(device_id_, timestamp, user_id, severity, message, previous_hash_)
    IN /\ tamper.kind \in {"none", "untouched"}
       /\ Len(entries) < MaxEntries
       /\ \A i \in 0..(Len(message) - 1) : CharCode[CharAt(message, i)] >= 32
       /\ \E current_hash \in {hash(payload)} :
            /\ entries' = Append(entries,
                                 LogEntry(device_id_, timestamp, user_id, severity, message,
                                          previous_hash_, current_hash))
            /\ previous_hash_' = current_hash
       /\ sequence_number_' = sequence_number_ + 1
       /\ UNCHANGED <<device_id_, presented, tamper, result, queried, aside>>

\* AuditChain::log(message, user_id, severity) at a time the clock shows as
\* timestamp; the caller appends the returned entry to its export. The caller
\* logs before it presents a list, or while it holds a copy of the export that
\* it has presented untouched.
log(message, user_id, severity, timestamp) ==
    LET payload == Payload(device_id_, timestamp, user_id, severity, message, previous_hash_)
    IN /\ tamper.kind \in {"none", "untouched"}
       /\ Len(entries) < MaxEntries
       /\ \E current_hash \in {hash(payload)} :
            /\ entries' = Append(entries,
                                 LogEntry(device_id_, timestamp, user_id, severity, message,
                                          previous_hash_, current_hash))
            /\ previous_hash_' = current_hash
       /\ sequence_number_' = sequence_number_ + 1
       /\ UNCHANGED <<device_id_, presented, tamper, result, queried, aside>>

\* verify_chain that starts from the rolling digest of the instance.
Present_from_instance(list, how) ==
    /\ tamper.kind = "none"
    /\ \E l \in {list} :
         /\ presented' = l
         /\ result' = IF l = <<>> THEN "true" ELSE VerifyFrom(l, 1, previous_hash_)
    /\ tamper' = how
    /\ UNCHANGED <<device_id_, previous_hash_, sequence_number_, entries, queried, aside>>

\* The caller hands list to AuditChain::verify_chain.
Present(list, how) ==
    /\ tamper.kind = "none"
    /\ \E l \in {list} :
         /\ presented' = l
         /\ result' = verify_chain(l)
    /\ tamper' = how
    /\ UNCHANGED <<device_id_, previous_hash_, sequence_number_, entries, queried, aside>>

\* The export as it is.
VerifyExport == Present(entries, [kind |-> "untouched", at |-> 0, field |-> "none"])

\* The export without its entry i.
RemoveEntry(i) ==
    Present(SubSeq(entries, 1, i - 1) \o SubSeq(entries, i + 1, Len(entries)),
            [kind |-> "remove", at |-> i, field |-> "none"])

\* The entries of the export in the order order[1], order[2], ...
Reorder(order) ==
    /\ \E j \in DOMAIN order : order[j] # j
    /\ Present([j \in 1..Len(entries) |-> entries[order[j]]],
               [kind |-> "reorder", at |-> 0, field |-> "none"])

\* One character of a digest text replaced: by the next hexadecimal digit, by
\* its upper case, by a blank or by a letter that is no hexadecimal digit.
AlterKinds == {"digit", "case", "blank", "letter"}

Altered(c, how) ==
    IF how = "digit" THEN CharAt(HexDigits, (HexValue(c) + 1) % 16)
    ELSE IF how = "case" THEN CharAt(UpperHexDigits, HexValue(c))
    ELSE IF how = "blank" THEN " "
    ELSE "g"

ReplaceAt(str, pos, c) == SubSeq(str, 1, pos) \o c \o SubSeq(str, pos + 2, Len(str))

\* The export with the character at offset pos of the previous_hash text or of
\* the chain_hash text of entry i changed.
AlterHash(i, field, pos, how) ==
    LET entry == entries[i]
        at == pos + (IF field = "previous_hash" THEN PreviousHashStart(entry)
                     ELSE ChainHashStart(entry))
    IN /\ Altered(CharAt(entry, at), how) # CharAt(entry, at)
       /\ Present([entries EXCEPT ![i] = ReplaceAt(entry, at, Altered(CharAt(entry, at), how))],
                  [kind |-> "alter", at |-> i, field |-> field])

\* The digest texts an inserted entry may declare: "link" is the text that
\* verify_chain expects at the place of insertion, "zero" is 64 zeros.
ZeroHex == hash_to_hex([i \in 1..32 |-> 0])
LinkHex(i) == IF i = 1 THEN hash_to_hex(DTS_INIT) ELSE ChainHashField(entries[i - 1])
Declared(i, what) == IF what = "link" THEN LinkHex(i) ELSE ZeroHex

\* The export with an entry that log() never returned put before entry i (at
\* the end for i = Len(entries) + 1).
InsertEntry(i, previous, chain) ==
    LET fake == Serialize(device_id_, "2025-01-01T00:00:00.002Z", Admin, Info, "fake",
                          Declared(i, previous), Declared(i, chain))
    IN Present(SubSeq(entries, 1, i - 1) \o <<fake>> \o SubSeq(entries, i, Len(entries)),
               [kind |-> "insert", at |-> i, field |-> "none"])

\* str with the first occurrence of old replaced by new (std::string::find and
\* std::string::replace, as the test of chain integrity uses them).
ReplaceFirst(str, old, new) ==
    LET pos == find(str, old, 0)
    IN SubSeq(str, 1, pos) \o new \o SubSeq(str, pos + Len(old) + 1, Len(str))

Edits == { <<"boot", "HACKED">>, <<"door", "window">> }

\* The export with the message text of entry i edited.
ModifyMessage(i, edit) ==
    /\ find(entries[i], edit[1], 0) # npos
    /\ Present([entries EXCEPT ![i] = ReplaceFirst(entries[i], edit[1], edit[2])],
               [kind |-> "modify", at |-> i, field |-> "none"])

\* The lists whose payload fields get rewritten: the export, and the export
\* after its oldest entry was rotated away.
Base(which) == IF which = "export" THEN entries ELSE Tail(entries)

\* A list with entry i serialized again, from other payload fields and the two
\* digest texts that log() wrote into it.
Repayload(which, i, device_id, c) ==
    /\ entries # <<>>
    /\ i \in 1..Len(Base(which))
    /\ Present([Base(which) EXCEPT ![i] =
                   Serialize(device_id, c[4], c[2], c[3], c[1],
                             PreviousHashField(Base(which)[i]), ChainHashField(Base(which)[i]))],
               [kind |-> "repayload", at |-> i, field |-> which])

\* entry without its previous_hash field or without its chain_hash field.
WithoutField(entry, field) ==
    IF field = "previous_hash"
    THEN substr(entry, 0, PreviousHashStart(entry) - 17) \o substr(entry, ChainHashStart(entry) - 14, 80)
    ELSE substr(entry, 0, ChainHashStart(entry) - 15) \o "}"

\* list with the first character of the chain_hash text of its first entry
\* replaced by a letter that is no hexadecimal digit.
Spoiled(list) == [list EXCEPT ![1] = ReplaceAt(list[1], ChainHashStart(list[1]), "g")]

\* The export with entry i lacking a digest field; the entries before it are
\* as log() returned them ("intact") or the first one is spoiled.
DropField(i, field, others) ==
    /\ others = "spoiled" => i > 1
    /\ Present([(IF others = "spoiled" THEN Spoiled(entries) ELSE entries)
                   EXCEPT ![i] = WithoutField(entries[i], field)],
               [kind |-> "drop", at |-> i, field |-> field])

\* A digest text of 64 characters cut down to its first two characters, emptied,
\* or left without its closing quote.
Malformed(entry, start, how) ==
    IF how = "short" THEN substr(entry, 0, start + 2) \o substr(entry, start + 64, Len(entry))
    ELSE IF how = "empty" THEN substr(entry, 0, start) \o substr(entry, start + 64, Len(entry))
    ELSE substr(entry, 0, start + 64) \o substr(entry, start + 65, Len(entry))

\* The export with the previous_hash text or the chain_hash text of entry i
\* malformed.
Malform(i, field, how) ==
    LET entry == entries[i]
        start == IF field = "previous_hash" THEN PreviousHashStart(entry)
                 ELSE ChainHashStart(entry)
    IN Present([entries EXCEPT ![i] = Malformed(entry, start, how)],
               [kind |-> "malform", at |-> i, field |-> field])

\* The caller hands the copy of the export it holds to verify_chain once more.
VerifyAgain ==
    /\ tamper.kind = "untouched"
    /\ result' = verify_chain(presented)
    /\ UNCHANGED <<device_id_, previous_hash_, sequence_number_, entries, presented, tamper,
                   queried, aside>>

\* The caller drops the list it presented.
Discard ==
    /\ tamper.kind # "none"
    /\ presented' = <<>>
    /\ tamper' = NoTamper
    /\ result' = "none"
    /\ UNCHANGED <<device_id_, previous_hash_, sequence_number_, entries, queried, aside>>

Next ==
    \/ \E c \in Calls : log(c[1], c[2], c[3], c[4])
    \/ VerifyExport
    \/ \E i \in 1..Len(entries) : RemoveEntry(i)
    \/ \E order \in Permutations(1..Len(entries)) : Reorder(order)
    \/ \E i \in 1..Len(entries), field \in {"previous_hash", "chain_hash"},
          pos \in 0..(MaxAlterPos - 1), how \in AlterKinds : AlterHash(i, field, pos, how)
    \/ \E i \in 1..(Len(entries) + 1), previous \in {"link", "zero"}, chain \in {"link", "zero"} :
          InsertEntry(i, previous, chain)
    \/ \E i \in 1..Len(entries), edit \in Edits : ModifyMessage(i, edit)
    \/ \E which \in {"export", "rotated"}, i \in 1..MaxEntries, device_id \in DeviceIds, c \in Calls :
          Repayload(which, i, device_id, c)
    \/ \E i \in 1..Len(entries), field \in {"previous_hash", "chain_hash"},
          others \in {"intact", "spoiled"} : DropField(i, field, others)
    \/ \E i \in 1..Len(entries), field \in {"previous_hash", "chain_hash"},
          how \in {"short", "empty", "unterminated"} : Malform(i, field, how)
    \/ VerifyAgain
    \/ Discard

Spec == Init /\ [][Next]_vars

---------------------------------------------------------------------------
(* The queries of the chain state, interleaved with log() calls.           *)

\* The caller calls get_chain_hash().
QueryChainHash ==
    /\ queried' = [op |-> "get_chain_hash", chain_hash |-> get_chain_hash, sequence_number |-> 0]
    /\ UNCHANGED <<device_id_, previous_hash_, sequence_number_, entries, presented, tamper,
                   result, aside>>

\* get_sequence_number() written with a post-increment.
QuerySequenceNumber_increments ==
    /\ queried' = [op |-> "get_sequence_number", chain_hash |-> "",
                   sequence_number |-> get_sequence_number]
    /\ sequence_number_' = sequence_number_ + 1
    /\ UNCHANGED <<device_id_, previous_hash_, entries, presented, tamper, result, aside>>

\* The caller calls get_sequence_number().
QuerySequenceNumber ==
    /\ queried' = [op |-> "get_sequence_number", chain_hash |-> "",
                   sequence_number |-> get_sequence_number]
    /\ UNCHANGED <<device_id_, previous_hash_, sequence_number_, entries, presented, tamper,
                   result, aside>>

NextQuery ==
    \/ \E c \in Calls : log(c[1], c[2], c[3], c[4])
    \/ QueryChainHash
    \/ QuerySequenceNumber

SpecQuery == Init /\ [][NextQuery]_vars

---------------------------------------------------------------------------
(* log() on any message, user id and severity.                             *)

\* Messages that are empty, hold quotes and backslashes, control characters.
Messages == {"", "boot", "say \"a\\b\"", "tab\tline\n"}

\* <<message, user_id, severity, timestamp>>: every message, every user id
\* and every severity.
WideCalls ==
    { <<message, System, Info, "2025-01-01T00:00:00.000Z">> : message \in Messages }
    \cup { <<"boot", user_id, Info, "2025-01-01T00:00:00.000Z">> : user_id \in UserID }
    \cup { <<"boot", System, severity, "2025-01-01T00:00:00.000Z">> : severity \in Severity }

\* The last log() call of a behaviour, on any input.
LogAny(message, user_id, severity, timestamp) ==
    /\ Len(entries) = MaxEntries - 1
    /\ log(message, user_id, severity, timestamp)

NextLog ==
    \/ \E c \in Calls : log(c[1], c[2], c[3], c[4])
    \/ \E c \in WideCalls : LogAny(c[1], c[2], c[3], c[4])

SpecLog == Init /\ [][NextLog]_vars

---------------------------------------------------------------------------
(* Two instances constructed with the same device id, stepped by one       *)
(* caller. The members above are those of the instance the caller is at,   *)
(* twin holds those of the other one.                                      *)

\* The caller turns to the other instance.
Switch ==
    /\ twin' = [previous_hash_ |-> previous_hash_,
                sequence_number_ |-> sequence_number_,
                entries |-> entries]
    /\ previous_hash_' = twin.previous_hash_
    /\ sequence_number_' = twin.sequence_number_
    /\ entries' = twin.entries
    /\ UNCHANGED <<device_id_, presented, tamper, result, queried, threads, lock, sha, adapter>>

\* log() on the instance the caller is at, which is not ahead of the other:
\* the two instances are stepped side by side.
LogBehind(message, user_id, severity, timestamp) ==
    /\ Len(entries) <= Len(twin.entries)
    /\ log(message, user_id, severity, timestamp)

NextTwin ==
    \/ \E c \in Calls : LogBehind(c[1], c[2], c[3], c[4])
    \/ Switch

SpecTwin == Init /\ [][NextTwin]_vars

---------------------------------------------------------------------------
(* log() called on one instance from two threads. Each thread runs log()   *)
(* access by access to the members: previous_hash_ is read for the payload *)
(* and again for the entry, then written (a 32-byte copy, in two parts),   *)
(* then sequence_number_ is loaded and stored. lock is the caller's mutex: *)
(* "absent", "free" or the thread that holds it. entries holds the entries *)
(* in the order the calls returned.                                        *)

InFlight == {t \in Threads : threads[t].pc # "outside"}

InitRace ==
    /\ InitChain
    /\ device_id_ = PlainId
    /\ twin = NewTwin
    /\ threads = NoThreads
    /\ lock \in {"absent", "free"}
    /\ sha = NoSha
    /\ adapter = NoAdapter

\* A caller that enters log() whoever holds the mutex.
Call_past_the_lock(t, c) ==
    /\ threads[t].pc = "outside"
    /\ Len(entries) + Cardinality(InFlight) < MaxRaceCalls
    /\ lock' = IF lock = "absent" THEN "absent" ELSE t
    /\ threads' = [threads EXCEPT ![t] = [Outside EXCEPT !.pc = "called", !.call = c]]
    /\ UNCHANGED <<device_id_, previous_hash_, sequence_number_, entries, presented, tamper,
                   result, queried, twin, sha, adapter>>

\* The thread enters log(); with a mutex, after it has locked it.
Call(t, c) ==
    /\ threads[t].pc = "outside"
    /\ Len(entries) + Cardinality(InFlight) < MaxRaceCalls
    /\ lock \in {"absent", "free"}
    /\ lock' = IF lock = "absent" THEN "absent" ELSE t
    /\ threads' = [threads EXCEPT ![t] = [Outside EXCEPT !.pc = "called", !.call = c]]
    /\ UNCHANGED <<device_id_, previous_hash_, sequence_number_, entries, presented, tamper,
                   result, queried, twin, sha, adapter>>

\* The payload is built from previous_hash_ and hashed.
HashPayload(t) ==
    /\ threads[t].pc = "called"
    /\ \E c \in {threads[t].call} :
         \E current_hash \in {hash(Payload(device_id_, c[4], c[2], c[3], c[1], previous_hash_))} :
            threads' = [threads EXCEPT ![t].pc = "hashed", ![t].current_hash = current_hash]
    /\ UNCHANGED <<device_id_, previous_hash_, sequence_number_, entries, presented, tamper,
                   result, queried, twin, lock, sha, adapter>>

\* The entry is built, previous_hash_ read once more.
BuildEntry(t) ==
    /\ threads[t].pc = "hashed"
    /\ \E c \in {threads[t].call} :
         threads' = [threads EXCEPT ![t].pc = "built",
                                    ![t].log_entry = LogEntry(device_id_, c[4], c[2], c[3], c[1],
                                                              previous_hash_,
                                                              threads[t].current_hash)]
    /\ UNCHANGED <<device_id_, previous_hash_, sequence_number_, entries, presented, tamper,
                   result, queried, twin, lock, sha, adapter>>

\* previous_hash_ = current_hash, the first 16 bytes.
StoreHashFirst(t) ==
    /\ threads[t].pc = "built"
    /\ previous_hash_' = [i \in 1..32 |-> IF i <= 16 THEN threads[t].current_hash[i]
                                          ELSE previous_hash_[i]]
    /\ threads' = [threads EXCEPT ![t].pc = "storing"]
    /\ UNCHANGED <<device_id_, sequence_number_, entries, presented, tamper,
                   result, queried, twin, lock, sha, adapter>>

\* previous_hash_ = current_hash, the last 16 bytes.
StoreHashRest(t) ==
    /\ threads[t].pc = "storing"
    /\ previous_hash_' = [i \in 1..32 |-> IF i <= 16 THEN previous_hash_[i]
                                          ELSE threads[t].current_hash[i]]
    /\ threads' = [threads EXCEPT ![t].pc = "stored"]
    /\ UNCHANGED <<device_id_, sequence_number_, entries, presented, tamper,
                   result, queried, twin, lock, sha, adapter>>

\* sequence_number_++, the load.
LoadCount(t) ==
    /\ threads[t].pc = "stored"
    /\ threads' = [threads EXCEPT ![t].pc = "loaded", ![t].sequence_number = sequence_number_]
    /\ UNCHANGED <<device_id_, previous_hash_, sequence_number_, entries, presented, tamper,
                   result, queried, twin, lock, sha, adapter>>

\* sequence_number_++, the store; log() returns the entry and the caller keeps
\* it and unlocks the mutex.
StoreCount(t) ==
    /\ threads[t].pc = "loaded"
    /\ sequence_number_' = threads[t].sequence_number + 1
    /\ entries' = Append(entries, threads[t].log_entry)
    /\ lock' = IF lock = "absent" THEN "absent" ELSE "free"
    /\ threads' = [threads EXCEPT ![t] = Outside]
    /\ UNCHANGED <<device_id_, previous_hash_, presented, tamper, result, queried, twin, sha, adapter>>

NextRace ==
    \/ \E t \in Threads, c \in Calls : Call(t, c)
    \/ \E t \in Threads : HashPayload(t)
    \/ \E t \in Threads : BuildEntry(t)
    \/ \E t \in Threads : StoreHashFirst(t)
    \/ \E t \in Threads : StoreHashRest(t)
    \/ \E t \in Threads : LoadCount(t)
    \/ \E t \in Threads : StoreCount(t)

SpecRace == InitRace /\ [][NextRace]_vars

---------------------------------------------------------------------------
(* A SHA256 object fed in chunks. sha.data is the input, sha.fed the       *)
(* number of its bytes passed to update() so far, sha.chunks the number of *)
(* update() calls (counted up to MaxChunks), sha.finalized the number of   *)
(* finalize() calls, sha.digest the result of the last finalize().         *)

\* An input of n bytes.
Bytes(n) == [i \in 1..n |-> (37 * i + 11) % 256]

\* Input lengths around the block of 64 bytes and the 56 bytes that leave
\* room for the length.
Lengths == {0, 1, 55, 56, 63, 64, 65, 120}

Inputs == {StrBytes(""), StrBytes("abc")} \cup {Bytes(n) : n \in Lengths}

\* Lengths of the chunks passed to update().
ChunkSizes == {0, 1, 8, 55, 56, 63, 64, 65}

InitSha ==
    /\ InitChain
    /\ device_id_ = PlainId
    /\ twin = NewTwin
    /\ threads = NoThreads
    /\ lock = "absent"
    /\ sha \in {[NoSha EXCEPT !.data = data] : data \in Inputs}
    /\ adapter = NoAdapter

\* ctx.update(data + fed, len)
Update(len) ==
    /\ sha.digest = <<>>
    /\ sha.fed + len <= Len(sha.data)
    /\ \E ctx \in {update(sha.ctx, SubSeq(sha.data, sha.fed + 1, sha.fed + len))} :
         sha' = [sha EXCEPT !.ctx = ctx, !.fed = sha.fed + len,
                            !.chunks = Min(sha.chunks + 1, MaxChunks)]
    /\ UNCHANGED <<device_id_, previous_hash_, sequence_number_, entries, presented, tamper,
                   result, queried, twin, threads, lock, adapter>>

\* ctx.finalize(), once the whole input is fed.
Finalize ==
    /\ sha.digest = <<>>
    /\ sha.fed = Len(sha.data)
    /\ \E done \in {Finalized(sha.ctx)} :
         sha' = [sha EXCEPT !.ctx = done, !.finalized = 1, !.digest = ResultBytes(done.h)]
    /\ UNCHANGED <<device_id_, previous_hash_, sequence_number_, entries, presented, tamper,
                   result, queried, twin, threads, lock, adapter>>

NextSha ==
    \/ \E len \in ChunkSizes : Update(len)
    \/ Finalize

SpecSha == InitSha /\ [][NextSha]_vars

---------------------------------------------------------------------------
(* A SHA256 object that is used again after finalize(): update() and       *)
(* finalize() are public and test no flag.                                 *)

\* Bytes passed to update() after a finalize().
MoreBytes == {Bytes(1), Bytes(8)}

\* ctx.update(more, len) after a finalize().
UpdateAgain(more) ==
    /\ sha.digest # <<>>
    /\ sha.fed = Len(sha.data)
    /\ sha.finalized < MaxFinalize
    /\ \E ctx \in {update(sha.ctx, more)} :
         sha' = [sha EXCEPT !.ctx = ctx, !.fed = sha.fed + Len(more),
                            !.chunks = Min(sha.chunks + 1, MaxChunks)]
    /\ UNCHANGED <<device_id_, previous_hash_, sequence_number_, entries, presented, tamper,
                   result, queried, twin, threads, lock, adapter>>

\* ctx.finalize() after a finalize().
FinalizeAgain ==
    /\ sha.digest # <<>>
    /\ sha.finalized < MaxFinalize
    /\ \E done \in {Finalized(sha.ctx)} :
         sha' = [sha EXCEPT !.ctx = done, !.finalized = sha.finalized + 1,
                            !.digest = ResultBytes(done.h)]
    /\ UNCHANGED <<device_id_, previous_hash_, sequence_number_, entries, presented, tamper,
                   result, queried, twin, threads, lock, adapter>>

NextShaReuse ==
    \/ \E len \in ChunkSizes : Update(len)
    \/ Finalize
    \/ \E more \in MoreBytes : UpdateAgain(more)
    \/ FinalizeAgain

SpecShaReuse == InitSha /\ [][NextShaReuse]_vars

---------------------------------------------------------------------------
(* log() on messages spelled out of the characters escape_json() treats.   *)

\* A quote, a backslash, a control character with a short escape, one
\* without, and the letter that follows the backslash in a short escape.
Alphabet == {"\"", "\\", Backspace, "\n", Soh, "n"}

\* The strings over Alphabet of at most the given length.
RECURSIVE Strings(_)
Strings(len) ==
    IF len = 0 THEN {""}
    ELSE {str \o c : str \in Strings(len - 1), c \in Alphabet} \cup Strings(len - 1)

\* Messages that spell the fields verify_chain looks for, and the remaining
\* control characters.
FieldMessages ==
    {"\",\"previous_hash\":\"0",
     "x\",\"chain_hash\":\"" \o ZeroHex \o "\"}",
     "\t\f\r" \o Us \o "\\u0041\\"}

\* The first log() call of an instance, on such a message.
LogTyped(message) ==
    /\ entries = <<>>
    /\ log(message, System, Info, "2025-01-01T00:00:00.000Z")

NextEscape == \E message \in Strings(MaxMessageLen) \cup FieldMessages : LogTyped(message)

SpecEscape == Init /\ [][NextEscape]_vars

---------------------------------------------------------------------------
(* The formatting adapters. An adapter owns one AuditChain as its chain_   *)
(* member; each of its log_* methods builds a message from its arguments   *)
(* and ends in chain_.log(message, user_id, severity). get_chain() hands   *)
(* the same instance to the caller, who may call log() on it directly.     *)

\* The calls on one adapter that the model follows.
MaxAdapterCalls == 2

\* The constructors: chain_(device_id) and the strings the adapter keeps.
Adapters ==
    { [NoAdapter EXCEPT !.class = "MedTechAdapter", !.device_type_ = "pump"],
      [NoAdapter EXCEPT !.class = "DICOMAdapter", !.ae_title_ = "PACS"],
      [NoAdapter EXCEPT !.class = "ClinicalTrialAdapter", !.protocol_id_ = "P-7"],
      [NoAdapter EXCEPT !.class = "IndustrialAdapter", !.asset_tag_ = "A1"],
      [NoAdapter EXCEPT !.class = "BuildingAutomationAdapter", !.zone_id_ = "Z2"] }

\* An adapter constructed with a device identity; no call made yet.
InitAdapter ==
    /\ InitChain
    /\ device_id_ \in {PlainId, MarkerId}
    /\ twin = NewTwin
    /\ threads = NoThreads
    /\ lock = "absent"
    /\ sha = NoSha
    /\ adapter \in Adapters

\* msg << " | Label:" << value, written only for a value that is not empty.
Optional(label, value) == IF value = "" THEN "" ELSE " | " \o label \o value

\* MedicationEventType
Loaded == 1
Started == 2
Paused == 3
Stopped == 4
Completed == 5
MedicationError == 6

MedicationEventName(event_type) ==
    CASE event_type = Loaded -> "Medication Loaded"
      [] event_type = Started -> "Infusion Started"
      [] event_type = Paused -> "Infusion Paused"
      [] event_type = Stopped -> "Infusion Stopped"
      [] event_type = Completed -> "Infusion Completed"
      [] event_type = MedicationError -> "Medication Error"

\* AlarmPriority
PriorityLow == 1
PriorityMedium == 2
PriorityHigh == 3
PriorityCritical == 4

\* What the log_* methods of MedTechAdapter hand to chain_.log:
\* <<msg.str(), user_id, severity>> for the arguments of the model.
MedTechAdapter_log ==
    \* log_post_result(passed, details)
    { <<"POST " \o (IF passed THEN "PASSED" ELSE "FAILED")
          \o (IF details = "" THEN "" ELSE " | " \o details),
        System, IF passed THEN Info ELSE Critical>> :
          passed \in BOOLEAN, details \in {"RAM"} }
    \cup
    \* log_medication_event(event_type, drug_name, concentration, rate, duration)
    { <<MedicationEventName(event_type) \o " | Drug:" \o "insulin"
          \o Optional("Concentration:", "100U/mL") \o Optional("Rate:", "")
          \o (IF duration > 0 THEN " | Duration:" \o Decimal(duration) \o "min" ELSE ""),
        Operator, IF event_type = MedicationError THEN Error ELSE Info>> :
          event_type \in {Started, MedicationError}, duration \in {30} }
    \cup
    \* log_safety_alarm(alarm_type, priority, description, action_taken)
    { <<"Safety Alarm | Type:" \o "occlusion" \o " | Priority:" \o Decimal(priority)
          \o " | Description:" \o "line \"A\"" \o Optional("Action:", action_taken),
        System,
        IF priority = PriorityCritical THEN Critical
        ELSE IF priority = PriorityHigh THEN Error ELSE Warning>> :
          priority \in {PriorityLow, PriorityHigh, PriorityCritical}, action_taken \in {""} }
    \cup
    \* log_calibration(calibration_type, technician_id, result)
    { <<"Calibration " \o (IF passed THEN "PASSED" ELSE "FAILED")
          \o " | Type:" \o "flow" \o " | Technician:" \o "T-9",
        Service, IF passed THEN Info ELSE Warning>> : passed \in BOOLEAN }
    \cup
    \* log_firmware_update(old_version, new_version, success)
    { <<"Firmware Update " \o (IF success THEN "SUCCESS" ELSE "FAILED")
          \o " | From:" \o "1.0" \o " | To:" \o "1.1",
        Admin, IF success THEN Info ELSE Error>> : success \in BOOLEAN }
    \cup
    \* log_maintenance(maintenance_type, technician_id, notes)
    { <<"Maintenance | Type:" \o "filter" \o " | Technician:" \o "T-9"
          \o Optional("Notes:", notes),
        Service, Info>> : notes \in {""} }

\* What the log_* methods of DICOMAdapter hand to chain_.log.
DICOMAdapter_log ==
    \* log_study_created(study_instance_uid, patient_id, modality, user_id)
    { <<"DICOM Study Created | StudyInstanceUID:" \o "1.2.3" \o " | PatientID:" \o "P1"
          \o " | Modality:" \o "CT" \o Optional("AETitle:", adapter.ae_title_),
        user_id, Info>> : user_id \in {Operator} }
    \cup
    \* log_ai_inference_request(study_instance_uid, model_name, model_version, input_instances)
    { <<"AI Inference Request | StudyInstanceUID:" \o "1.2.3" \o " | Model:" \o "seg"
          \o " | Version:" \o "2" \o " | InputInstances:" \o Decimal(input_instances),
        System, Warning>> : input_instances \in {12} }
    \cup
    \* log_ai_inference_completed(study_instance_uid, model_name, inference_id, result_summary)
    { <<"AI Inference Completed | StudyInstanceUID:" \o "1.2.3" \o " | Model:" \o "seg"
          \o " | InferenceID:" \o "i-1" \o " | Result:" \o result_summary,
        System, Info>> : result_summary \in {"{\"nodule\":1}"} }
    \cup
    \* log_instance_stored(study_instance_uid, sop_instance_uid, sop_class_uid)
    { <<"DICOM Instance Stored | StudyInstanceUID:" \o "1.2.3"
          \o " | SOPInstanceUID:" \o sop_instance_uid \o " | SOPClassUID:" \o "1.2.840",
        System, Info>> : sop_instance_uid \in {"1.2.3.4"} }
    \cup
    \* log_transfer_initiated(study_instance_uid, destination, transfer_syntax)
    { <<"DICOM Transfer Initiated | StudyInstanceUID:" \o "1.2.3"
          \o " | Destination:" \o "ARCHIVE" \o Optional("TransferSyntax:", transfer_syntax),
        System, Info>> : transfer_syntax \in {"1.2.840.10008.1.2"} }
    \cup
    \* log_access_event(study_instance_uid, user_id, granted, reason)
    { <<"DICOM Access " \o (IF granted THEN "Granted" ELSE "Denied")
          \o " | StudyInstanceUID:" \o "1.2.3"
          \o (IF ~granted /\ reason # "" THEN " | Reason:" \o reason ELSE ""),
        user_id, IF granted THEN Info ELSE Warning>> :
          user_id \in {Unauthorized}, granted \in BOOLEAN, reason \in {"role"} }

\* The default anonymizer_: "ANON-" and the first 8 bytes of the digest in hex.
anonymizer_(id) ==
    The({"ANON-" \o Concat([i \in 1..8 |-> HexByte(digest[i])], 1, 8) : digest \in {hash(id)}})

\* TrialEventType
VisitStarted == 2
VisitCompleted == 3

\* What the log_* methods of ClinicalTrialAdapter hand to chain_.log.
ClinicalTrialAdapter_log ==
    \* log_patient_enrolled(patient_id, site_id, enrollment_date)
    { <<"Patient Enrolled | PatientID:" \o anon_id \o " | SiteID:" \o "S1"
          \o Optional("Protocol:", adapter.protocol_id_) \o Optional("Date:", enrollment_date),
        Operator, Info>> :
          anon_id \in {anonymizer_("MRN-1")}, enrollment_date \in {"2025-01-01"} }
    \cup
    \* log_visit_event(event_type, patient_id, visit_number, visit_type)
    { <<(IF event_type = VisitStarted THEN "Visit Started" ELSE "Visit Completed")
          \o " | PatientID:" \o anon_id \o " | VisitNumber:" \o Decimal(visit_number)
          \o Optional("VisitType:", "screening"),
        Operator, Info>> :
          anon_id \in {anonymizer_("MRN-1")}, event_type \in {VisitStarted, VisitCompleted},
          visit_number \in {1} }
    \cup
    \* log_data_collected(patient_id, data_type, form_id, data_point_count)
    { <<"Data Collected | PatientID:" \o anon_id \o " | DataType:" \o "vitals"
          \o Optional("CRF:", form_id)
          \o (IF data_point_count > 0 THEN " | Points:" \o Decimal(data_point_count) ELSE ""),
        Operator, Info>> :
          anon_id \in {anonymizer_("MRN-1")}, form_id \in {"CRF-2"}, data_point_count \in {5} }
    \cup
    \* log_protocol_deviation(patient_id, deviation_type, description, severity)
    { <<"Protocol Deviation | PatientID:" \o anon_id \o " | Type:" \o "window"
          \o " | Description:" \o "late\nvisit" \o Optional("Protocol:", adapter.protocol_id_),
        Operator, severity>> : anon_id \in {anonymizer_("MRN-1")}, severity \in {Critical} }
    \cup
    \* log_adverse_event(patient_id, ae_type, severity, relatedness)
    { <<"Adverse Event | PatientID:" \o anon_id \o " | Type:" \o "rash"
          \o " | Severity:" \o "mild" \o " | Related:" \o (IF relatedness THEN "Yes" ELSE "No"),
        Operator, Error>> : anon_id \in {anonymizer_("MRN-1")}, relatedness \in {TRUE} }
    \cup
    \* log_data_export(export_type, destination, record_count, anonymized)
    { <<"Data Exported | Type:" \o "csv" \o " | Destination:" \o "sponsor"
          \o " | Records:" \o Decimal(record_count)
          \o " | Anonymized:" \o (IF anonymized THEN "Yes" ELSE "No"),
        Admin, Info>> : record_count \in {40}, anonymized \in {FALSE} }

\* ProductionEventType
BatchStarted == 1
BatchCompleted == 2
BatchAborted == 3
RecipeLoaded == 4
RecipeChanged == 5
QualityCheckPassed == 6
QualityCheckFailed == 7

ProductionEventName(event_type) ==
    CASE event_type = BatchStarted -> "Batch Started"
      [] event_type = BatchCompleted -> "Batch Completed"
      [] event_type = BatchAborted -> "Batch Aborted"
      [] event_type = RecipeLoaded -> "Recipe Loaded"
      [] event_type = RecipeChanged -> "Recipe Changed"
      [] event_type = QualityCheckPassed -> "Quality Check Passed"
      [] event_type = QualityCheckFailed -> "Quality Check Failed"

\* ProtocolType
Modbus == 1
OPCUA == 2
EtherNetIP == 3
Profinet == 4
DNP3 == 5
IEC61850 == 6
BACnet == 7
KNX == 8
MQTT == 9
OtherProtocol == 255

ProtocolName(protocol) ==
    CASE protocol = Modbus -> "Modbus"
      [] protocol = OPCUA -> "OPC UA"
      [] protocol = EtherNetIP -> "EtherNet/IP"
      [] protocol = Profinet -> "Profinet"
      [] protocol = DNP3 -> "DNP3"
      [] protocol = IEC61850 -> "IEC 61850"
      [] protocol = BACnet -> "BACnet"
      [] protocol = KNX -> "KNX"
      [] protocol = MQTT -> "MQTT"
      [] OTHER -> "Other"

\* What the log_* methods of IndustrialAdapter hand to chain_.log.
IndustrialAdapter_log ==
    \* log_plc_event(program_name, rung_number, event_description)
    { <<"PLC Event | Program:" \o "main"
          \o (IF rung_number >= 0 THEN " | Rung:" \o Decimal(rung_number) ELSE "")
          \o (IF event_description = "" THEN "" ELSE " | " \o event_description)
          \o Optional("Asset:", adapter.asset_tag_),
        System, Info>> : rung_number \in {12}, event_description \in {"fault"} }
    \cup
    \* log_io_change(io_address, old_value, new_value, is_output)
    { <<"I/O Change | " \o (IF is_output THEN "Output" ELSE "Input") \o ":" \o "Q0.1"
          \o " | From:" \o "0" \o " | To:" \o "1" \o Optional("Asset:", adapter.asset_tag_),
        System, Info>> : is_output \in {TRUE} }
    \cup
    \* log_scada_alarm(alarm_id, alarm_message, severity, acknowledged)
    { <<"SCADA Alarm | ID:" \o "A-7" \o " | Message:" \o "tank\\level"
          \o " | Acknowledged:" \o (IF acknowledged THEN "Yes" ELSE "No")
          \o Optional("Asset:", adapter.asset_tag_),
        Operator, severity>> : severity \in {Critical}, acknowledged \in {FALSE} }
    \cup
    \* log_production_event(event_type, batch_id, product_code, quantity)
    { <<ProductionEventName(event_type) \o " | BatchID:" \o "B-1"
          \o Optional("Product:", "widget")
          \o (IF quantity > 0 THEN " | Quantity:" \o Decimal(quantity) ELSE "")
          \o Optional("Line:", adapter.line_id_),
        Operator,
        IF event_type = QualityCheckFailed \/ event_type = BatchAborted THEN Error ELSE Info>> :
          event_type \in {BatchStarted, QualityCheckFailed}, quantity \in {250} }
    \cup
    \* log_protocol_event(protocol, source_address, destination_address, function_code, success)
    { <<"Protocol Event | " \o ProtocolName(protocol) \o " | From:" \o "10.0.0.1"
          \o " | To:" \o "10.0.0.2" \o Optional("Function:", "03")
          \o " | Status:" \o (IF success THEN "Success" ELSE "Failed"),
        System, IF success THEN Info ELSE Warning>> :
          protocol \in {Modbus, OtherProtocol}, success \in {FALSE} }
    \cup
    \* log_safety_interlock(interlock_id, triggered, reason)
    { <<"Safety Interlock " \o (IF triggered THEN "TRIGGERED" ELSE "RESET")
          \o " | ID:" \o "IL-3" \o Optional("Reason:", reason)
          \o Optional("Asset:", adapter.asset_tag_),
        System, IF triggered THEN Critical ELSE Info>> :
          triggered \in BOOLEAN, reason \in {"guard open"} }
    \cup
    \* log_equipment_status(equipment_id, old_status, new_status)
    { <<"Equipment Status Change | Equipment:" \o "press" \o " | From:" \o "idle"
          \o " | To:" \o new_status \o Optional("Line:", adapter.line_id_),
        System, Info>> : new_status \in {"stopped"} }
    \cup
    \* log_parameter_change(parameter_name, old_value, new_value, user_id)
    { <<"Parameter Changed | Parameter:" \o "setpoint" \o " | From:" \o "40"
          \o " | To:" \o "45" \o Optional("Asset:", adapter.asset_tag_),
        user_id, Warning>> : user_id \in {Admin} }
    \cup
    \* log_maintenance(maintenance_type, technician_id, description)
    { <<"Maintenance | Type:" \o "preventive" \o " | Technician:" \o "T-9"
          \o Optional("Description:", description) \o Optional("Asset:", adapter.asset_tag_),
        Service, Info>> : description \in {"belt"} }

\* What the log_* methods of BuildingAutomationAdapter hand to chain_.log. A
\* double that holds a whole number below 10^6 is written by the stream without
\* a decimal point.
BuildingAutomationAdapter_log ==
    \* log_hvac_event(event_type, zone, value, unit)
    { <<"HVAC Event | Type:" \o "setpoint" \o " | Zone:" \o zone
          \o " | Value:" \o Decimal(value)
          \o (IF unit = "" THEN "" ELSE " " \o unit)
          \o (IF adapter.zone_id_ # "" /\ adapter.zone_id_ # zone
              THEN " | ZoneID:" \o adapter.zone_id_ ELSE ""),
        Operator, Info>> : zone \in {"Z1"}, value \in {21}, unit \in {"C"} }
    \cup
    \* log_lighting_event(zone, old_level, new_level, control_source)
    { <<"Lighting Control | Zone:" \o "Z1" \o " | From:" \o Decimal(old_level) \o "% | To:"
          \o Decimal(new_level) \o "% | Source:" \o "manual",
        Operator, Info>> : old_level \in {50}, new_level \in {80} }
    \cup
    \* log_access_control(door_id, user_id, granted, reason)
    { <<"Access Control | Door:" \o "D1" \o " | User:" \o "u\t7"
          \o " | Granted:" \o (IF granted THEN "Yes" ELSE "No")
          \o (IF ~granted /\ reason # "" THEN " | Reason:" \o reason ELSE ""),
        System, IF granted THEN Info ELSE Warning>> : granted \in BOOLEAN, reason \in {"badge"} }
    \cup
    \* log_fire_safety_event(event_type, location, severity)
    { <<"Fire Safety Event | Type:" \o "smoke" \o " | Location:" \o "lobby"
          \o Optional("Zone:", adapter.zone_id_),
        System, severity>> : severity \in {Critical} }
    \cup
    \* log_energy_consumption(meter_id, consumption_kwh, peak_demand_kw)
    { <<"Energy Consumption | Meter:" \o "M1" \o " | Consumption:" \o Decimal(consumption_kwh)
          \o " kWh"
          \o (IF peak_demand_kw > 0 THEN " | Peak:" \o Decimal(peak_demand_kw) \o " kW" ELSE "")
          \o Optional("Building:", adapter.building_id_),
        System, Info>> : consumption_kwh \in {120}, peak_demand_kw \in {7} }
    \cup
    \* log_knx_event(group_address, data_value, data_type)
    { <<"KNX Event | GroupAddress:" \o "1/2/3" \o " | Value:" \o "on"
          \o Optional("DPT:", data_type),
        System, Info>> : data_type \in {"1.001"} }
    \cup
    \* log_bacnet_event(object_type, object_instance, property_name, value)
    { <<"BACnet Event | ObjectType:" \o "analog-input" \o " | Instance:"
          \o Decimal(object_instance) \o " | Property:" \o "present-value"
          \o " | Value:" \o "21.5",
        System, Info>> : object_instance \in {303} }
    \cup
    \* log_schedule_event(schedule_name, action, zone)
    { <<"Schedule Event | Schedule:" \o "night" \o " | Action:" \o "dim"
          \o Optional("Zone:", zone),
        System, Info>> : zone \in {""} }
    \cup
    \* log_elevator_event(elevator_id, event_type, floor)
    { <<"Elevator Event | Elevator:" \o "E1" \o " | Type:" \o "stop"
          \o (IF floor >= 0 THEN " | Floor:" \o Decimal(floor) ELSE "")
          \o Optional("Building:", adapter.building_id_),
        System, Info>> : floor \in {3} }
    \cup
    \* log_security_event(event_type, location, severity)
    { <<"Security Event | Type:" \o "intrusion" \o " | Location:" \o "dock"
          \o Optional("Zone:", adapter.zone_id_),
        System, severity>> : severity \in {Error} }

\* A log_* method of the adapter: return chain_.log(msg.str(), user_id, severity),
\* the clock showing the same time at every call.
chain_log(class, calls) ==
    /\ adapter.class = class
    /\ Len(entries) < MaxAdapterCalls
    /\ \E c \in calls : log(c[1], c[2], c[3], "2025-01-01T00:00:00.000Z")

\* get_chain().log(...): the caller logs on the adapter's instance directly.
get_chain_log ==
    /\ adapter.class # "none"
    /\ Len(entries) < MaxAdapterCalls
    /\ log("boot", System, Info, "2025-01-01T00:00:00.000Z")

NextAdapter ==
    \/ get_chain_log
    \/ chain_log("MedTechAdapter", MedTechAdapter_log)
    \/ chain_log("DICOMAdapter", DICOMAdapter_log)
    \/ chain_log("ClinicalTrialAdapter", ClinicalTrialAdapter_log)
    \/ chain_log("IndustrialAdapter", IndustrialAdapter_log)
    \/ chain_log("BuildingAutomationAdapter", BuildingAutomationAdapter_log)

SpecAdapter == InitAdapter /\ [][NextAdapter]_vars

---------------------------------------------------------------------------
(* Parts of exports. The device is restarted (a new AuditChain with the    *)
(* same device_id starts a new session) and the caller keeps the export of *)
(* the session before; what it presents is the head of an export, the      *)
(* entries that log rotation or a circular buffer kept, or the exports of  *)
(* the two sessions one after the other.                                   *)

\* The device restarts: AuditChain::AuditChain(device_id) once more. The caller
\* sets the export of the session that ends aside.
Restart ==
    /\ tamper.kind = "none"
    /\ entries # <<>>
    /\ twin.entries = <<>>
    /\ twin' = [previous_hash_ |-> previous_hash_, sequence_number_ |-> sequence_number_,
                entries |-> entries]
    /\ previous_hash_' = DTS_INIT
    /\ sequence_number_' = 0
    /\ entries' = <<>>
    /\ UNCHANGED <<device_id_, presented, tamper, result, queried, threads, lock, sha, adapter>>

\* log() while the two sessions together hold fewer than MaxEntries entries.
LogSession(c) ==
    /\ Len(twin.entries) + Len(entries) < MaxEntries
    /\ log(c[1], c[2], c[3], c[4])

\* The first count entries of the export: its tail was cut off.
Truncate(count) ==
    Present(SubSeq(entries, 1, count), [kind |-> "truncate", at |-> count, field |-> "none"])

\* The entries first + 1 .. last of the export: the entries before them were
\* rotated away or overwritten in the circular buffer.
Segment(first, last) ==
    /\ first >= 1
    /\ first < last
    /\ Present(SubSeq(entries, first + 1, last),
               [kind |-> "segment", at |-> first, field |-> "none"])

\* The export of the session before, followed by the export of this session.
Concatenate ==
    /\ twin.entries # <<>>
    /\ entries # <<>>
    /\ Present(twin.entries \o entries,
               [kind |-> "concatenate", at |-> Len(twin.entries), field |-> "none"])

NextSegment ==
    \/ \E c \in Calls : LogSession(c)
    \/ Restart
    \/ \E count \in 0..Len(entries) : Truncate(count)
    \/ \E first \in 1..Len(entries), last \in 1..Len(entries) : Segment(first, last)
    \/ Concatenate
    \/ Discard

SpecSegment == Init /\ [][NextSegment]_vars

---------------------------------------------------------------------------
(* Two devices. The caller holds two AuditChain instances constructed with *)
(* device identities of its choosing and logs on both; device identities   *)
(* and messages may contain the '|' that separates the payload fields.     *)

PipeTime == "2025-01-01T00:00:00.000Z"

\* Device identities without and with the separator.
PipeIds == {"D", "D|" \o PipeTime \o "|0|1|X"}

\* log() calls whose message is without and with the separator.
PipeCalls ==
    { <<"boot", System, Info, PipeTime>>,
      <<"X|" \o PipeTime \o "|0|1|boot", System, Info, PipeTime>> }

\* AuditChain::AuditChain(device_id) twice.
InitPayload ==
    /\ device_id_ \in PipeIds
    /\ previous_hash_ = DTS_INIT
    /\ sequence_number_ = 0
    /\ entries = <<>>
    /\ presented = <<>>
    /\ tamper = NoTamper
    /\ result = "none"
    /\ queried = NoQuery
    /\ twin \in {[device_id_ |-> device_id, previous_hash_ |-> DTS_INIT, sequence_number_ |-> 0,
                  entries |-> <<>>] : device_id \in PipeIds}
    /\ threads = NoThreads
    /\ lock = "absent"
    /\ sha = NoSha
    /\ adapter = NoAdapter

\* The caller turns to its other instance.
SwitchDevice ==
    /\ twin' = [device_id_ |-> device_id_,
                previous_hash_ |-> previous_hash_,
                sequence_number_ |-> sequence_number_,
                entries |-> entries]
    /\ device_id_' = twin.device_id_
    /\ previous_hash_' = twin.previous_hash_
    /\ sequence_number_' = twin.sequence_number_
    /\ entries' = twin.entries
    /\ UNCHANGED <<presented, tamper, result, queried, threads, lock, sha, adapter>>

\* log() on the instance the caller is at, while the two instances together
\* hold fewer than MaxEntries entries.
LogDevice(c) ==
    /\ Len(twin.entries) + Len(entries) < MaxEntries
    /\ log(c[1], c[2], c[3], c[4])

NextPayload ==
    \/ \E c \in PipeCalls : LogDevice(c)
    \/ SwitchDevice

SpecPayload == InitPayload /\ [][NextPayload]_vars

---------------------------------------------------------------------------
(* finalize() step by step: the length is taken, the padding is fed, the   *)
(* length trailer is fed, the digest is read from h.                       *)

\* Inputs of every length from 0 bytes to one byte past the block.
FinalizeInputs == {Bytes(n) : n \in 0..65} \cup {Bytes(120)}

\* A fresh SHA256 object and the input it will be fed; no finalize() entered.
InitFinalize ==
    /\ InitChain
    /\ device_id_ = PlainId
    /\ twin = NewTwin
    /\ threads = NoThreads
    /\ lock = "absent"
    /\ adapter = NoAdapter
    /\ sha \in {[ctx |-> SHA256, data |-> data, fed |-> 0, chunks |-> 0, finalized |-> 0,
                digest |-> <<>>, pc |-> "idle", pad_len |-> 0, bit_len_be |-> <<>>] :
                  data \in FinalizeInputs}

\* ctx.update(data + fed, len) outside finalize().
Feed(len) ==
    /\ sha.pc = "idle"
    /\ Update(len)

\* finalize(): bit_len_be and pad_len are computed and the padding is fed.
FinalizePad ==
    /\ sha.pc = "idle"
    /\ sha.fed = Len(sha.data)
    /\ \E len \in {PadLen(Len(sha.ctx.buffer))} :
         \E ctx \in {update(sha.ctx, SubSeq(padding, 1, len))} :
           sha' = [sha EXCEPT !.ctx = ctx, !.pc = "padded", !.pad_len = len,
                              !.bit_len_be = swap_endian(Uint64Bytes(sha.ctx.bit_len))]
    /\ UNCHANGED <<device_id_, previous_hash_, sequence_number_, entries, presented, tamper,
                   result, queried, twin, threads, lock, adapter>>

\* finalize(): the 8 bytes of the length are fed.
FinalizeLength ==
    /\ sha.pc = "padded"
    /\ \E ctx \in {update(sha.ctx, sha.bit_len_be)} :
         sha' = [sha EXCEPT !.ctx = ctx, !.pc = "trailed"]
    /\ UNCHANGED <<device_id_, previous_hash_, sequence_number_, entries, presented, tamper,
                   result, queried, twin, threads, lock, adapter>>

\* finalize(): the digest is read from h and returned.
FinalizeResult ==
    /\ sha.pc = "trailed"
    /\ sha' = [sha EXCEPT !.pc = "done", !.finalized = 1, !.digest = ResultBytes(sha.ctx.h)]
    /\ UNCHANGED <<device_id_, previous_hash_, sequence_number_, entries, presented, tamper,
                   result, queried, twin, threads, lock, adapter>>

NextFinalize ==
    \/ \E len \in ChunkSizes : Feed(len)
    \/ FinalizePad
    \/ FinalizeLength
    \/ FinalizeResult

SpecFinalize == InitFinalize /\ [][NextFinalize]_vars

---------------------------------------------------------------------------
(* Properties of the audit chain.                                          *)

\* The export of the instance passes verify_chain as it is.
ExportValid == verify_chain(entries) = "true"

\* C1: the entries returned by N successive log() calls, untouched and in
\* order, make verify_chain return true, for any device identity.
C1_UntouchedExportVerifies == tamper.kind = "untouched" => result = "true"

\* An untouched export of one entry that verify_chain rejects.
C1_Rejected ==
    /\ tamper.kind = "untouched"
    /\ Len(presented) = 1
    /\ device_id_ = MarkerId
    /\ result = "false"

\* C2: the previous_hash field of entry i equals the chain_hash field of entry
\* i-1, and the previous_hash field of the first entry is the hexadecimal
\* rendering of the digest of "DTS_INIT".
C2_ChainLinkage ==
    \A i \in 1..Len(entries) :
        PreviousHashField(entries[i]) =
            IF i = 1 THEN hash_to_hex(DTS_INIT) ELSE ChainHashField(entries[i - 1])

\* Three entries whose digest fields link and differ from one another.
C2_Linked ==
    /\ Len(entries) = 3
    /\ PreviousHashField(entries[1]) = hash_to_hex(DTS_INIT)
    /\ PreviousHashField(entries[2]) = ChainHashField(entries[1])
    /\ PreviousHashField(entries[3]) = ChainHashField(entries[2])
    /\ Cardinality({PreviousHashField(entries[1]), ChainHashField(entries[1]),
                    ChainHashField(entries[2]), ChainHashField(entries[3])}) = 4

\* C3: get_chain_hash() is the chain_hash field of the entry that the latest
\* log() call returned, or the hexadecimal rendering of the digest of
\* "DTS_INIT" before the first call.
C3_ChainHashOfLastEntry ==
    get_chain_hash = IF entries = <<>> THEN hash_to_hex(DTS_INIT)
                     ELSE ChainHashField(entries[Len(entries)])

\* After two log() calls get_chain_hash() is the second entry's chain_hash,
\* which is neither the first entry's nor the initial one.
C3_AfterTwoCalls ==
    /\ Len(entries) = 2
    /\ get_chain_hash = ChainHashField(entries[2])
    /\ get_chain_hash # ChainHashField(entries[1])
    /\ get_chain_hash # hash_to_hex(DTS_INIT)

\* C4: get_sequence_number() is 0 on a fresh instance and i after the i-th
\* log() call; a log() call adds exactly 1 to it and no other step changes it.
C4_SequenceNumberCountsCalls ==
    /\ [](get_sequence_number = Len(entries))
    /\ [][IF Len(entries') = Len(entries) + 1
          THEN get_sequence_number' = get_sequence_number + 1
          ELSE get_sequence_number' = get_sequence_number]_vars

\* The counter after two log() calls and a verification that failed.
C4_TwoCalls ==
    /\ get_sequence_number = 2
    /\ Len(entries) = 2
    /\ result = "false"

\* C5: with an entry other than the first and the last removed from an export
\* of three or more entries, verify_chain returns false.
C5_RemovalDetected ==
    (tamper.kind = "remove" /\ Len(entries) >= 3 /\ 1 < tamper.at /\ tamper.at < Len(entries))
        => result = "false"

\* A removal from the middle that verify_chain accepts.
C5_RemovalAccepted ==
    /\ tamper.kind = "remove"
    /\ Len(entries) = 3
    /\ tamper.at = 2
    /\ result = "true"

\* C6: the entries of an export of two or more entries, presented in another
\* order than the original one, make verify_chain return false.
C6_ReorderDetected == (tamper.kind = "reorder" /\ Len(entries) >= 2) => result = "false"

\* Two entries swapped, and verify_chain accepts them.
C6_ReorderAccepted ==
    /\ tamper.kind = "reorder"
    /\ Len(entries) = 2
    /\ presented = <<entries[2], entries[1]>>
    /\ result = "true"

\* C7: one character of the previous_hash text or of the chain_hash text of one
\* entry of a valid export changed (in the last entry too, and to the other
\* letter case too) makes verify_chain return false.
C7_AlteredHashDetected == (tamper.kind = "alter" /\ ExportValid) => result = "false"

\* A chain_hash character changed in an entry that is not the last one, on a
\* device identity without quotes, and verify_chain accepts the list.
C7_AlteredHashAccepted ==
    /\ tamper.kind = "alter"
    /\ device_id_ = PlainId
    /\ tamper.field = "chain_hash"
    /\ tamper.at < Len(entries)
    /\ result = "true"

\* C8: an entry that the instance did not produce, inserted anywhere into a
\* valid export, makes verify_chain return false whatever digests it declares.
C8_InsertionDetected == (tamper.kind = "insert" /\ ExportValid) => result = "false"

\* An entry inserted between two entries of an export on a device identity
\* without quotes, and verify_chain accepts the list.
C8_InsertionAccepted ==
    /\ tamper.kind = "insert"
    /\ device_id_ = PlainId
    /\ 1 < tamper.at
    /\ tamper.at <= Len(entries)
    /\ result = "true"

\* C9: a valid export with the message text of one entry modified makes
\* verify_chain return false.
C9_ModificationDetected == (tamper.kind = "modify" /\ ExportValid) => result = "false"

\* A modified message on a device identity without quotes, accepted.
C9_ModificationAccepted ==
    /\ tamper.kind = "modify"
    /\ device_id_ = PlainId
    /\ presented # entries
    /\ result = "true"

\* The two digest texts log() wrote are the same in the entries of a and b.
SameDigests(a, b) ==
    /\ Len(a) = Len(b)
    /\ \A j \in 1..Len(a) :
        /\ PreviousHashField(a[j]) = PreviousHashField(b[j])
        /\ ChainHashField(a[j]) = ChainHashField(b[j])

\* C10: two lists of equal length whose entries declare the same previous_hash
\* and chain_hash pairwise get the same result from verify_chain, whatever
\* their device_id, timestamp, user_id, severity and message fields contain.
C10_LinkageOnly ==
    (tamper.kind = "repayload" /\ SameDigests(presented, Base(tamper.field)))
        => result = verify_chain(Base(tamper.field))

\* Two lists with the same digests, serialized from device identities without
\* and with a field marker, that verify_chain tells apart.
C10_PayloadDecides ==
    /\ tamper.kind = "repayload"
    /\ device_id_ = PlainId
    /\ SameDigests(presented, Base(tamper.field))
    /\ verify_chain(Base(tamper.field)) = "true"
    /\ result = "false"

\* C11: a list with an entry that lacks the previous_hash field or the
\* chain_hash field makes verify_chain return false, whatever the other entries
\* contain.
C11_MissingFieldRejected == tamper.kind = "drop" => result = "false"

\* An entry without a digest field on a device identity without quotes, and
\* verify_chain ends with an exception.
C11_MissingFieldThrows ==
    /\ tamper.kind = "drop"
    /\ device_id_ = PlainId
    /\ tamper.at = 2
    /\ result = "throw"

\* The digest texts verify_chain reads from an entry: from the first occurrence
\* of each marker to the next quote.
HasMarkers(entry) ==
    find(entry, "\"previous_hash\":\"", 0) # npos /\ find(entry, "\"chain_hash\":\"", 0) # npos
ReadPreviousHash(entry) == extract_hex(entry, find(entry, "\"previous_hash\":\"", 0) + 17)
ReadChainHash(entry) == extract_hex(entry, find(entry, "\"chain_hash\":\"", 0) + 14)

IsHex64(str) == Len(str) = 64 /\ \A i \in 0..63 : IsHexDigit(CharAt(str, i))

NotHex64(entry) ==
    HasMarkers(entry) /\ (~IsHex64(ReadPreviousHash(entry)) \/ ~IsHex64(ReadChainHash(entry)))

\* C12: a list with an entry whose previous_hash or chain_hash value is not 64
\* hexadecimal characters makes verify_chain return false.
C12_MalformedHexRejected ==
    (tamper.kind # "none" /\ \E j \in 1..Len(presented) : NotHex64(presented[j]))
        => result = "false"

\* A chain_hash value that is too short, empty or unterminated, on a device
\* identity without quotes, and verify_chain ends with an exception.
C12_MalformedHexThrows ==
    /\ tamper.kind = "malform"
    /\ device_id_ = PlainId
    /\ tamper.field = "chain_hash"
    /\ NotHex64(presented[tamper.at])
    /\ result = "throw"

\* C17: verify_chain leaves the AuditChain instance unchanged, and its result
\* is the result for its argument whenever it is called: after log() calls made
\* since, and on a repeated call.
C17_VerifyReadOnly ==
    /\ [](tamper.kind # "none" => result = verify_chain(presented))
    /\ [][(presented' # presented \/ result' # result)
            => UNCHANGED <<device_id_, previous_hash_, sequence_number_, entries>>]_vars

\* A list was verified, accepted, and log() was called twice since.
C17_LoggedSince ==
    /\ tamper.kind = "untouched"
    /\ Len(presented) = 1
    /\ Len(entries) = 3
    /\ result = "true"

\* C16: get_chain_hash() and get_sequence_number() change nothing: a step that
\* is no log() call leaves the rolling digest, the sequence counter and the
\* device identity as they are, and with queries between the log() calls the
\* counter still is the number of entries and the rolling digest still is the
\* chain_hash of the last entry.
C16_QueriesReadOnly ==
    /\ [][entries' = entries => UNCHANGED <<device_id_, previous_hash_, sequence_number_>>]_vars
    /\ [](sequence_number_ = Len(entries))
    /\ [](entries # <<>> => hash_to_hex(previous_hash_) = ChainHashField(entries[Len(entries)]))

\* Both queries were made after the first log() call, and two more log()
\* calls followed.
C16_QueriedBetweenCalls ==
    /\ queried.op = "get_sequence_number"
    /\ queried.sequence_number = 1
    /\ Len(entries) = 3

\* The entry the last log() call returned.
LastEntry(list) == list[Len(list)]

\* C13: log() has no error outcome: whenever the instance may log, log() can
\* be called with every message, user id and severity; and a call that returns
\* an entry has advanced the rolling digest and the counter, both or none.
C13_LogTotal ==
    /\ [](Len(entries) < MaxEntries
            => \A c \in WideCalls : ENABLED log(c[1], c[2], c[3], c[4]))
    /\ [][IF entries' # entries
          THEN /\ Len(entries') = Len(entries) + 1
               /\ SubSeq(LastEntry(entries'), 1, 14) = "{\"device_id\":\""
               /\ sequence_number_' = sequence_number_ + 1
               /\ hash_to_hex(previous_hash_') = ChainHashField(LastEntry(entries'))
               /\ previous_hash_' # previous_hash_
          ELSE UNCHANGED <<previous_hash_, sequence_number_>>]_vars

\* The third entry was logged from a message with control characters.
C13_ControlCharactersLogged ==
    /\ Len(entries) = 3
    /\ find(LastEntry(entries), "tab\\tline\\n", 0) # npos
    /\ sequence_number_ = 3

\* C15: the chain_hash field of an entry log() returns is the digest of
\* device_id|timestamp|user_id|severity|message|previous_hash, built from the
\* fields of that entry: the message unescaped, the codes in decimal, the
\* previous_hash as it stands in the entry.
C15_ChainHashOfPayload ==
    [][entries' # entries
         => \E c \in WideCalls \cup Calls, entry \in {LastEntry(entries')} :
              /\ entry = Serialize(device_id_, c[4], c[2], c[3], c[1],
                                   PreviousHashField(entry), ChainHashField(entry))
              /\ ChainHashField(entry) =
                     hash_to_hex(hash(device_id_ \o "|" \o c[4] \o "|" \o Decimal(c[2]) \o "|"
                                      \o Decimal(c[3]) \o "|" \o c[1] \o "|"
                                      \o PreviousHashField(entry)))]_vars

\* An entry whose message holds quotes and a backslash, after two others.
C15_QuotedMessageLogged ==
    /\ Len(entries) = 3
    /\ find(LastEntry(entries), "say \\\"a\\\\b\\\"", 0) # npos

\* The part of an entry that holds the six inputs of its digest: device id,
\* timestamp, user id, severity, message and previous_hash.
DigestInputs(entry) == substr(entry, 0, ChainHashStart(entry))

C18_SingleWriter ==
    lock # "absent"
      => /\ Cardinality(InFlight) <= 1
         /\ \A i \in 1..Len(entries) :
              PreviousHashField(entries[i]) =
                  IF i = 1 THEN hash_to_hex(DTS_INIT) ELSE ChainHashField(entries[i - 1])
         /\ verify_chain(entries) = "true"
         /\ sequence_number_ = Len(entries)

\* Two calls interleaved without a mutex: both entries declare the digest of
\* the construction, the counter has advanced by one, the export is rejected.
C18_LostUpdate ==
    /\ lock = "absent"
    /\ InFlight = {}
    /\ Len(entries) = 2
    /\ PreviousHashField(entries[1]) = PreviousHashField(entries[2])
    /\ sequence_number_ = 1
    /\ verify_chain(entries) = "false"

\* C19: the digest finalize() returns after the input was passed to update()
\* in chunks, however it was split, is the digest SHA256::hash returns for the
\* whole input.
C19_StreamingEquivalence ==
    sha.digest # <<>> => sha.digest = hash_bytes(sha.data)

\* An input of 65 bytes was fed in three chunks or more and finalized.
C19_FedInChunks ==
    /\ Len(sha.data) = 65
    /\ sha.chunks >= 3
    /\ sha.digest # <<>>

\* C20: the digest of the empty input and the digest of "abc" are the
\* published SHA-256 values.
C20_PublishedVectors ==
    sha.digest # <<>> =>
        /\ sha.data = StrBytes("")
             => hash_to_hex(sha.digest)
                    = "e3b0c44298fc1c149afbf4c8996fb92427ae41e4649b934ca495991b7852b855"
        /\ sha.data = StrBytes("abc")
             => hash_to_hex(sha.digest)
                    = "ba7816bf8f01cfea414140de5dae2223b00361a396177a9cb410ff61f20015ad"

\* The digest of "abc" computed with the table k of the source.
C20_DigestOfAbc ==
    /\ sha.data = StrBytes("abc")
    /\ sha.digest # <<>>
    /\ hash_to_hex(sha.digest) = "d81e6e5d3f5a2e6a00e5d4b40b0e359e3b07540136529858969b1edeee2dbfc8"
    /\ sha.digest = hash("abc")

\* C21: once finalize() has returned a digest, the SHA256 object takes no
\* further update() and returns no further digest.
C21_FinalizeOnce ==
    [][sha.digest # <<>> => (sha'.ctx = sha.ctx /\ sha'.digest = sha.digest)]_vars

\* The trailer finalize() appends to an input of the given length.
Trailer(len) ==
    SubSeq(padding, 1, IF len % 64 < 56 THEN 56 - (len % 64) ELSE 120 - (len % 64))
    \o swap_endian(Uint64Bytes(8 * len))

\* A second finalize() on the object that was fed "abc" returned a value: the
\* digest of the input followed by the trailer of the first finalize().
C21_SecondDigest ==
    /\ sha.data = StrBytes("abc")
    /\ sha.finalized = 2
    /\ sha.fed = 3
    /\ sha.digest # hash_bytes(sha.data)
    /\ sha.digest = hash_bytes(sha.data \o Trailer(3))

\* Where the message field of an entry opens (position of its first character).
MessageStart(device_id) ==
    Len("{\"device_id\":\"" \o device_id
        \o "\",\"timestamp\":\"2025-01-01T00:00:00.000Z\",\"user_id\":0,\"severity\":1,\"message\":\"")

\* The first quote at or after pos that no backslash escapes, reading the
\* text as a string literal: a backslash takes the character after it along.
RECURSIVE ClosingQuote(_, _)
ClosingQuote(entry, pos) ==
    IF pos >= Len(entry) THEN npos
    ELSE IF CharAt(entry, pos) = "\\" THEN ClosingQuote(entry, pos + 2)
    ELSE IF CharAt(entry, pos) = "\"" THEN pos
    ELSE ClosingQuote(entry, pos + 1)

\* The text a string literal stands for: each escape sequence read back.
RECURSIVE Unescape(_)
Unescape(str) ==
    IF str = "" THEN ""
    ELSE IF CharAt(str, 0) # "\\" THEN CharAt(str, 0) \o Unescape(substr(str, 1, Len(str)))
    ELSE IF CharAt(str, 1) = "u"
    THEN (CHOOSE c \in DOMAIN CharCode :
              CharCode[c] = 16 * HexValue(CharAt(str, 4)) + HexValue(CharAt(str, 5)))
         \o Unescape(substr(str, 6, Len(str)))
    ELSE (IF CharAt(str, 1) = "b" THEN Backspace
          ELSE IF CharAt(str, 1) = "f" THEN "\f"
          ELSE IF CharAt(str, 1) = "n" THEN "\n"
          ELSE IF CharAt(str, 1) = "r" THEN "\r"
          ELSE IF CharAt(str, 1) = "t" THEN "\t"
          ELSE CharAt(str, 1))
         \o Unescape(substr(str, 2, Len(str)))

\* The message field of an entry: from its opening to the first unescaped quote.
MessageField(entry, device_id) ==
    substr(entry, MessageStart(device_id),
           ClosingQuote(entry, MessageStart(device_id)) - MessageStart(device_id))

\* C22: in the entry log() returns, the first unescaped quote after the opening
\* of the message field is the quote that closes it (the previous_hash field
\* follows), the field holds no raw control character, and read back as a
\* string literal it is the message that was logged.
C22_MessageEscaped ==
    [][entries' # entries
         => \E entry \in {LastEntry(entries')} :
              /\ ClosingQuote(entry, MessageStart(device_id_)) = PreviousHashStart(entry) - 19
              /\ \A i \in 0..(Len(MessageField(entry, device_id_)) - 1) :
                     CharCode[CharAt(MessageField(entry, device_id_), i)] >= 32
              /\ \E message \in Strings(MaxMessageLen) \cup FieldMessages :
                     /\ Unescape(MessageField(entry, device_id_)) = message
                     /\ entry = Serialize(device_id_, "2025-01-01T00:00:00.000Z", System, Info,
                                          message, PreviousHashField(entry), ChainHashField(entry))
              /\ find(MessageField(entry, device_id_), "\"previous_hash\":\"", 0) = npos
              /\ find(MessageField(entry, device_id_), "\"chain_hash\":\"", 0) = npos]_vars

\* An entry was logged from a message that spells a previous_hash field.
C22_FieldSpelledInMessage ==
    /\ Len(entries) = 1
    /\ find(entries[1], "\\\",\\\"previous_hash\\\":\\\"0", 0) # npos

\* 64 characters, each a lowercase hexadecimal digit.
LowerHex64(hex) ==
    /\ Len(hex) = 64
    /\ \A i \in 0..63 : \E d \in 0..15 : CharAt(hex, i) = CharAt(HexDigits, d)

Occurrences(str, pattern) ==
    Cardinality({pos \in 0..(Len(str) - Len(pattern)) :
                    SubSeq(str, pos + 1, pos + Len(pattern)) = pattern})

\* An entry with one previous_hash field and one chain_hash field, each of 64
\* lowercase hexadecimal characters.
WellFormedEntry(entry) ==
    /\ Occurrences(entry, "\"previous_hash\":\"") = 1
    /\ Occurrences(entry, "\"chain_hash\":\"") = 1
    /\ LowerHex64(ReadPreviousHash(entry))
    /\ LowerHex64(ReadChainHash(entry))

C25_AdapterCallsVerify ==
    adapter.class # "none" =>
      /\ sequence_number_ = Len(entries)
      /\ verify_chain(entries) = "true"

\* An adapter constructed with a device identity that spells a field marker has
\* made its calls, each counted once, and the entries it returned are not accepted.
C25_AdapterExportRejected ==
    /\ adapter.class # "none"
    /\ device_id_ = MarkerId
    /\ Len(entries) = MaxAdapterCalls
    /\ sequence_number_ = Len(entries)
    /\ verify_chain(entries) # "true"

C28_ExtractionFaithful ==
    [][Len(entries') = Len(entries) + 1 =>
         /\ ReadPreviousHash(LastEntry(entries')) = hash_to_hex(previous_hash_)
         /\ ReadChainHash(LastEntry(entries')) = hash_to_hex(previous_hash_')]_vars

\* The device identity spells the previous_hash marker: what verify_chain reads
\* as previous_hash from the entry that log() returned is text of the device
\* identity, not the digest that log() wrote.
C28_ExtractionRedirected ==
    /\ entries # <<>>
    /\ device_id_ = MarkerId
    /\ PreviousHashField(LastEntry(entries)) # ReadPreviousHash(LastEntry(entries))
    /\ ReadPreviousHash(LastEntry(entries)) = "1"
    /\ ReadChainHash(LastEntry(entries)) = hash_to_hex(previous_hash_)

\* The payload of the next log() call c on an instance of a device that has
\* reached the rolling digest previous_hash.
NextPayloadOf(device_id, c, previous_hash) ==
    Payload(device_id, c[4], c[2], c[3], c[1], previous_hash)

\* C29: the payload is an injective encoding of its fields: two log() calls
\* that differ in device identity, timestamp, user id, severity, message or
\* previous digest never hash the same payload string, also when the device
\* identity or the message contains the separator.
C29_PayloadInjective ==
    \A c1 \in PipeCalls, c2 \in PipeCalls :
      <<device_id_, c1, previous_hash_>> # <<twin.device_id_, c2, twin.previous_hash_>> =>
        NextPayloadOf(device_id_, c1, previous_hash_)
          # NextPayloadOf(twin.device_id_, c2, twin.previous_hash_)

\* Two devices with different identities have each logged one event, with
\* different messages, and share their chain_hash.
C29_SharedChainHash ==
    /\ device_id_ # twin.device_id_
    /\ Len(entries) = 1
    /\ Len(twin.entries) = 1
    /\ entries[1] # twin.entries[1]
    /\ ChainHashField(entries[1]) = ChainHashField(twin.entries[1])
    /\ previous_hash_ = twin.previous_hash_

\* C30: in finalize() the padding length is between 1 and 64, within the
\* padding array, for every buffered length; 56 bytes are buffered once the
\* padding is fed, and none once the 8 bytes of the length are fed, the last
\* block being transformed. Between update() calls the buffered length is
\* within 0..63 and is the number of bytes fed modulo 64.
C30_FinalizeBuffer ==
    /\ sha.pc = "idle" =>
         /\ Len(sha.ctx.buffer) \in 0..63
         /\ Len(sha.ctx.buffer) = sha.fed % 64
    /\ sha.pc = "padded" =>
         /\ sha.pad_len \in 1..64
         /\ sha.pad_len <= Len(padding)
         /\ Len(sha.ctx.buffer) = 56
    /\ sha.pc \in {"trailed", "done"} =>
         /\ Len(sha.ctx.buffer) = 0
         /\ sha.ctx.bit_len = 8 * (sha.fed + sha.pad_len + 8)
         /\ sha.ctx.bit_len % 512 = 0

\* finalize() with 56 bytes buffered: the padding takes the whole array and
\* runs into a second block, which is transformed after the length is fed.
C30_PaddingOfFullLength ==
    /\ sha.pc = "trailed"
    /\ sha.fed = 56
    /\ sha.pad_len = 64
    /\ sha.ctx.buffer = <<>>
    /\ sha.ctx.bit_len = 1024

====
